---- MODULE Spec2Model ----
\* The S10 trailing-stop engine of 20-auto-bot (src/s10_trailing.py):
\* compute_s10_trailing_update and its helpers, evaluated over bounded inputs.
\* Python floats are IEEE-754 binary64; they are modelled bit for bit, since
\* the engine's tick rounding (floor(price / tick) * tick) depends on them.
EXTENDS Integers, Sequences, FiniteSets, TLC

\* ---------------------------------------------------------------------
\* binary64 arithmetic.  A float is [s, m, e] = (-1)^s * m * 2^e with m a
\* little-endian sequence of limbs, 2^52 <= m < 2^53; zero has m = <<>>.
\* ---------------------------------------------------------------------

\* ---------------------------------------------------------------------------
\* Natural numbers of arbitrary size: little-endian limb sequences, base 2^14,
\* without high zero limbs; <<>> is zero.  (Parameter and LET names are kept
\* distinct across operators.)
\* v bound to its value, then Body of it (a local assignment)
Let(ltV, ltBody(_)) == CHOOSE ltR \in {ltBody(ltA) : ltA \in {ltV}} : TRUE

LimbBits == 14
LimbBase == 2^LimbBits

Limb(lmA, lmI) == IF lmI >= 1 /\ lmI <= Len(lmA) THEN lmA[lmI] ELSE 0

RECURSIVE BTrim(_)
BTrim(trA) ==
    IF Len(trA) = 0 THEN <<>>
    ELSE IF trA[Len(trA)] = 0 THEN BTrim(SubSeq(trA, 1, Len(trA) - 1)) ELSE trA

RECURSIVE BCarry(_, _, _)
BCarry(caCols, caI, caC) ==
    IF caI > Len(caCols) /\ caC = 0 THEN <<>>
    ELSE LET caX == Limb(caCols, caI) + caC
         IN  <<caX % LimbBase>> \o BCarry(caCols, caI + 1, caX \div LimbBase)

MaxOf(mxA, mxB) == IF mxA >= mxB THEN mxA ELSE mxB

BAdd(adA, adB) ==
    BTrim(BCarry(<<>> \o [adI \in 1..MaxOf(Len(adA), Len(adB)) |-> Limb(adA, adI) + Limb(adB, adI)], 1, 0))

RECURSIVE BBorrow(_, _, _, _)
BBorrow(boA, boB, boI, boC) ==
    IF boI > Len(boA) THEN <<>>
    ELSE LET boX == boA[boI] - Limb(boB, boI) - boC
         IN  <<IF boX < 0 THEN boX + LimbBase ELSE boX>>
             \o BBorrow(boA, boB, boI + 1, IF boX < 0 THEN 1 ELSE 0)

\* a - b for a >= b
BSub(sbA, sbB) == BTrim(BBorrow(sbA, sbB, 1, 0))

\* -1, 0, 1 as a < b, a = b, a > b
BCmp(cmA, cmB) ==
    IF Len(cmA) # Len(cmB) THEN (IF Len(cmA) < Len(cmB) THEN -1 ELSE 1)
    ELSE LET cmD == {cmI \in 1..Len(cmA) : cmA[cmI] # cmB[cmI]}
         IN  IF cmD = {} THEN 0
             ELSE LET cmK == CHOOSE cmI \in cmD : \A cmJ \in cmD : cmJ <= cmI
                  IN  IF cmA[cmK] < cmB[cmK] THEN -1 ELSE 1

\* product of two numbers of at most four limbs each
BMul(muA, muB) ==
    BTrim(BCarry(<<>> \o [muK \in 1..(Len(muA) + Len(muB)) |->
                    Limb(muA, 1) * Limb(muB, muK) + Limb(muA, 2) * Limb(muB, muK - 1)
                  + Limb(muA, 3) * Limb(muB, muK - 2) + Limb(muA, 4) * Limb(muB, muK - 3)], 1, 0))

BShl(slA, slK) ==
    LET slD == slK \div LimbBits
        slR == slK % LimbBits
    IN  BTrim(<<>> \o [slI \in 1..(Len(slA) + slD + 1) |->
                 ((Limb(slA, slI - slD) * 2^slR) % LimbBase)
                 + (Limb(slA, slI - slD - 1) \div 2^(LimbBits - slR))])

BShr(srA, srK) ==
    LET srD == srK \div LimbBits
        srR == srK % LimbBits
        srN == Len(srA) - srD
    IN  IF srN <= 0 THEN <<>>
        ELSE BTrim(<<>> \o [srI \in 1..srN |->
                 (Limb(srA, srI + srD) \div 2^srR)
                 + (Limb(srA, srI + srD + 1) % 2^srR) * 2^(LimbBits - srR)])

BBit(btA, btI) == (Limb(btA, (btI \div LimbBits) + 1) \div 2^(btI % LimbBits)) % 2

\* some bit below position k is set
BLowNonZero(lzA, lzK) ==
    \/ \E lzI \in 1..(lzK \div LimbBits) : Limb(lzA, lzI) # 0
    \/ Limb(lzA, (lzK \div LimbBits) + 1) % 2^(lzK % LimbBits) # 0

RECURSIVE IntBitLen(_)
IntBitLen(ibN) == IF ibN = 0 THEN 0 ELSE 1 + IntBitLen(ibN \div 2)

BBitLen(blA) == IF Len(blA) = 0 THEN 0 ELSE LimbBits * (Len(blA) - 1) + IntBitLen(blA[Len(blA)])

\* a natural number below 2^31 as limbs, and back
BFromNat(fnN) ==
    BTrim(<<fnN % LimbBase, (fnN \div LimbBase) % LimbBase, fnN \div (LimbBase * LimbBase)>>)
BToNat(tnA) == Limb(tnA, 1) + LimbBase * Limb(tnA, 2) + LimbBase * LimbBase * Limb(tnA, 3)

\* ---------------------------------------------------------------------------
\* IEEE-754 binary64 values (Python float): [s, m, e] is (-1)^s * m * 2^e with
\* 2^52 <= m < 2^53, or zero.  Round to nearest, ties to even.
MantBits == 53
FZero == [s |-> 0, m |-> <<>>, e |-> 0]

\* the float nearest to (-1)^s * (M + d) * 2^e, 0 < d < 1 iff sticky
RoundPack(rpS, rpM, rpE, rpSticky) ==
    LET rpL == BBitLen(rpM)
    IN  IF rpL = 0 THEN FZero
        ELSE IF rpL <= MantBits
        THEN [s |-> rpS, m |-> BShl(rpM, MantBits - rpL), e |-> rpE - (MantBits - rpL)]
        ELSE LET rpSh   == rpL - MantBits
                 rpQ    == BShr(rpM, rpSh)
                 rpHalf == BBit(rpM, rpSh - 1) = 1
                 rpRest == BLowNonZero(rpM, rpSh - 1) \/ rpSticky
                 rpUp   == rpHalf /\ (rpRest \/ BBit(rpQ, 0) = 1)
                 rpQ1   == IF rpUp THEN BAdd(rpQ, <<1>>) ELSE rpQ
             IN  IF BBitLen(rpQ1) > MantBits
                 THEN [s |-> rpS, m |-> BShr(rpQ1, 1), e |-> rpE + rpSh + 1]
                 ELSE [s |-> rpS, m |-> rpQ1, e |-> rpE + rpSh]

FromInt(fiN) ==
    RoundPack(IF fiN < 0 THEN 1 ELSE 0, BFromNat(IF fiN < 0 THEN -fiN ELSE fiN), 0, FALSE)

FNeg(ngX) == IF ngX.m = <<>> THEN ngX ELSE [ngX EXCEPT !.s = 1 - ngX.s]
FAbs(abX) == [abX EXCEPT !.s = 0]

\* -1, 0, 1 as |x| < |y|, |x| = |y|, |x| > |y|
FCmpMag(cgX, cgY) ==
    IF cgX.m = <<>> \/ cgY.m = <<>>
    THEN (IF cgX.m = cgY.m THEN 0 ELSE IF cgX.m = <<>> THEN -1 ELSE 1)
    ELSE IF cgX.e # cgY.e THEN (IF cgX.e < cgY.e THEN -1 ELSE 1)
    ELSE BCmp(cgX.m, cgY.m)

FCmp(fcX, fcY) ==
    IF fcX.s # fcY.s THEN (IF fcX.s = 1 THEN -1 ELSE 1)
    ELSE IF fcX.s = 0 THEN FCmpMag(fcX, fcY) ELSE FCmpMag(fcY, fcX)

FLt(ltX, ltY) == FCmp(ltX, ltY) < 0
FLe(leX, leY) == FCmp(leX, leY) <= 0
FGe(geX, geY) == FCmp(geX, geY) >= 0
FGt(gtX, gtY) == FCmp(gtX, gtY) > 0

\* x + y
FAdd(faX, faY) ==
    IF faX.m = <<>> THEN faY
    ELSE IF faY.m = <<>> THEN faX
    ELSE LET faBig == IF FCmpMag(faX, faY) >= 0 THEN faX ELSE faY
             faSml == IF FCmpMag(faX, faY) >= 0 THEN faY ELSE faX
             faD   == faBig.e - faSml.e
         IN  IF faD > MantBits + 3 THEN faBig
             ELSE LET faA == BShl(faBig.m, faD)
                  IN  IF faBig.s = faSml.s
                      THEN RoundPack(faBig.s, BAdd(faA, faSml.m), faSml.e, FALSE)
                      ELSE RoundPack(faBig.s, BSub(faA, faSml.m), faSml.e, FALSE)

FSub(fsX, fsY) == FAdd(fsX, FNeg(fsY))

FMul(fmX, fmY) ==
    IF fmX.m = <<>> \/ fmY.m = <<>> THEN FZero
    ELSE RoundPack((fmX.s + fmY.s) % 2, BMul(fmX.m, fmY.m), fmX.e + fmY.e, FALSE)

\* one quotient limb: [q, r] with dlR * 2^14 = q * dlD + r and r < dlD, for
\* dlR < dlD and dlD of 53 bits; the estimate from the leading 16 bits is then
\* corrected
RECURSIVE DivAdjust(_, _, _)
DivAdjust(daQ, daN, daD) ==
    IF BCmp(BMul(<<daQ>>, daD), daN) > 0 THEN DivAdjust(daQ - 1, daN, daD)
    ELSE IF BCmp(BSub(daN, BMul(<<daQ>>, daD)), daD) >= 0 THEN DivAdjust(daQ + 1, daN, daD)
    ELSE [q |-> daQ, r |-> BSub(daN, BMul(<<daQ>>, daD))]

DivLimb(dlR, dlD) ==
    DivAdjust((BToNat(BShr(dlR, MantBits - 16)) * LimbBase) \div BToNat(BShr(dlD, MantBits - 16)),
              BShl(dlR, LimbBits), dlD)

\* x / y for y # 0
FDiv(fdX, fdY) ==
    IF fdX.m = <<>> THEN FZero
    ELSE
    Let(IF BCmp(fdX.m, fdY.m) >= 0 THEN 1 ELSE 0, LAMBDA fdQ0 :
    Let(DivLimb(IF fdQ0 = 1 THEN BSub(fdX.m, fdY.m) ELSE fdX.m, fdY.m), LAMBDA fdL4 :
    Let(DivLimb(fdL4.r, fdY.m), LAMBDA fdL3 :
    Let(DivLimb(fdL3.r, fdY.m), LAMBDA fdL2 :
    Let(DivLimb(fdL2.r, fdY.m), LAMBDA fdL1 :
        RoundPack((fdX.s + fdY.s) % 2, BTrim(<<fdL1.q, fdL2.q, fdL3.q, fdL4.q, fdQ0>>),
                  fdX.e - fdY.e - 4 * LimbBits, fdL1.r # <<>>))))))

\* math.floor and math.ceil, for |x| < 2^31
FFloor(flX) ==
    IF flX.m = <<>> THEN 0
    ELSE LET flQ    == IF flX.e >= 0 THEN BToNat(BShl(flX.m, flX.e))
                       ELSE BToNat(BShr(flX.m, -flX.e))
             flFrac == flX.e < 0 /\ BLowNonZero(flX.m, -flX.e)
         IN  IF flX.s = 0 THEN flQ ELSE -(flQ + (IF flFrac THEN 1 ELSE 0))

FCeil(ceX) == -FFloor(FNeg(ceX))

FMax(fxX, fxY) == IF FGt(fxY, fxX) THEN fxY ELSE fxX
FMin(fnX, fnY) == IF FLt(fnY, fnX) THEN fnY ELSE fnX

\* the float of the decimal literal n * 10^-k, 0 <= k <= 9
Dec(dcN, dcK) == FDiv(FromInt(dcN), FromInt(10^dcK))

\* ---------------------------------------------------------------------------
\* The engine: src/s10_trailing.py
\* ---------------------------------------------------------------------------

\* Python None, for the Optional fields and configuration values
None == [none |-> TRUE]

\* the float literals of the source
F0 == FZero
F1 == FromInt(1)
F2 == FromInt(2)
F4 == FromInt(4)
\* 1e-12, the floor of the per-unit risk and of the ATR
Eps == FDiv(F1, FMul(FromInt(10^6), FromInt(10^6)))

\* load_s10_trailing_config with no YAML file and no overrides: the defaults
DefaultCfg ==
    [ S10_BE_TRIGGER_R              |-> FromInt(1),
      S10_BE_TRIGGER_PCT            |-> None,
      S10_BE_SL_OFFSET_PCT          |-> Dec(10, 4),
      S10_NO_TRAIL_BARS             |-> 2,
      S10_TRAIL_ATR_MULT_STRONG     |-> FromInt(2),
      S10_TRAIL_ATR_MULT_WEAK       |-> Dec(28, 1),
      S10_TRAIL_BUFFER_MULT         |-> Dec(30, 2),
      S10_ADX_TREND_MIN             |-> FromInt(25),
      S10_USE_ADAPTIVE_TRAIL        |-> TRUE,
      S10_MIN_SL_MOVE_PCT           |-> None,
      S10_TICK_SIZE_PCT             |-> Dec(1, 4),
      S10_TAKER_FEE_PCT             |-> Dec(7, 4),
      S10_STACKED_PARTIAL_CLOSE_PCT |-> Dec(25, 2),
      S10_STACKED_WIDER_MULT_BONUS  |-> Dec(25, 2) ]

\* load_s10_trailing_config(overrides): cfg.update(overrides) on the defaults
load_s10_trailing_config(overrides) ==
    [lcK \in DOMAIN DefaultCfg |->
        IF lcK \in DOMAIN overrides THEN overrides[lcK] ELSE DefaultCfg[lcK]]

\* str.upper() on the side strings the callers pass
Upper(upS) ==
    CASE upS = "buy"  -> "BUY"
      [] upS = "sell" -> "SELL"
      [] upS = "long" -> "LONG"
      [] OTHER        -> upS

\* the R-multiple with the BUY sign for both sides
_r_multiple_buy_sign(rmSide, rmEntry, rmPrice, rmRisk) ==
    IF FLe(rmRisk, F0) THEN F0 ELSE FDiv(FSub(rmPrice, rmEntry), rmRisk)

\* _r_multiple(side, entry_price, price, risk_per_unit)
_r_multiple(rmSide, rmEntry, rmPrice, rmRisk) ==
    IF FLe(rmRisk, F0) THEN F0
    ELSE IF Upper(rmSide) = "BUY"
         THEN FDiv(FSub(rmPrice, rmEntry), rmRisk)
         ELSE FDiv(FSub(rmEntry, rmPrice), rmRisk)

\* the threshold without its percentage part
_min_sl_move_threshold_tick_only(msCfg, msPrice, msTick) == msTick

\* _min_sl_move_threshold(cfg, price, tick_size_abs)
_min_sl_move_threshold(msCfg, msPrice, msTick) ==
    Let(IF msCfg.S10_MIN_SL_MOVE_PCT = None
        THEN FMax(msCfg.S10_TICK_SIZE_PCT, FMul(F2, msCfg.S10_TAKER_FEE_PCT))
        ELSE msCfg.S10_MIN_SL_MOVE_PCT, LAMBDA msPct :
        FMax(msTick, FMul(msPct, msPrice)))

\* rounding left out
_round_to_tick_unrounded(rtPrice, rtTick, rtMode) == rtPrice

\* _round_to_tick(price, tick, mode): "down" is math.floor, anything else ceil
_round_to_tick(rtPrice, rtTick, rtMode) ==
    IF FLe(rtTick, F0) THEN rtPrice
    ELSE Let(FDiv(rtPrice, rtTick), LAMBDA rtQ :
         IF rtMode = "down"
         THEN FMul(FromInt(FFloor(rtQ)), rtTick)
         ELSE FMul(FromInt(FCeil(rtQ)), rtTick))

\* S10TrailOutputs; exc names the exception when the call raises instead
S10TrailOutputs(toBe, toSl, toPc, toAct, toReason) ==
    [ exc |-> "none", be_stop |-> toBe, new_trailing_sl |-> toSl,
      partial_close_pct |-> toPc, activate_trailing |-> toAct, reason |-> toReason ]
Raised(raExc) ==
    [ exc |-> raExc, be_stop |-> None, new_trailing_sl |-> None,
      partial_close_pct |-> None, activate_trailing |-> FALSE, reason |-> "" ]

\* what a call leaves behind: the returned value and the locals it had bound
\* when it returned (None for a local it never reached)
Frame(frOut, frRpu, frR, frGate, frMult, frSl, frMin) ==
    [ out |-> frOut, r_per_unit |-> frRpu, r_mult |-> frR, passed_gate |-> frGate,
      atr_mult |-> frMult, new_sl |-> frSl, min_move |-> frMin ]

\* the per-unit risk without its floor
r_per_unit_unfloored(ruSide, ruIn) ==
    IF ruSide = "BUY" THEN FSub(ruIn.entry_price, ruIn.initial_stop)
    ELSE FSub(ruIn.initial_stop, ruIn.entry_price)

\* r_per_unit: the per-unit risk, floored at 1e-12
r_per_unit(ruSide, ruIn) ==
    IF ruSide = "BUY"
    THEN FMax(Eps, FSub(ruIn.entry_price, ruIn.initial_stop))
    ELSE FMax(Eps, FSub(ruIn.initial_stop, ruIn.entry_price))

\* the gate with its threshold dropped: any profit passes
passed_gate_any_profit(pgCfg, pgSide, pgIn, pgR) == FGt(pgR, F0)

\* passed_gate: the percent gate when S10_BE_TRIGGER_PCT is set, else the R gate
passed_gate(pgCfg, pgSide, pgIn, pgR) ==
    IF pgCfg.S10_BE_TRIGGER_PCT # None
    THEN Let(FSub(FDiv(pgIn.current_price, pgIn.entry_price), F1), LAMBDA pgRet :
         FGe(IF pgSide = "BUY" THEN pgRet ELSE FNeg(pgRet), pgCfg.S10_BE_TRIGGER_PCT))
    ELSE FGe(pgR, pgCfg.S10_BE_TRIGGER_R)

\* break-even proposed whenever the gate has passed, applied or not
be_stop_every_call(bsCfg, bsSide, bsIn, bsGate) ==
    IF bsGate
    THEN IF bsSide = "BUY"
         THEN FMul(bsIn.entry_price, FAdd(F1, bsCfg.S10_BE_SL_OFFSET_PCT))
         ELSE FMul(bsIn.entry_price, FSub(F1, bsCfg.S10_BE_SL_OFFSET_PCT))
    ELSE None

\* break-even proposed while it is not applied, whether the gate has passed
\* or not
be_stop_without_gate(bsCfg, bsSide, bsIn, bsGate) ==
    IF ~bsIn.be_applied
    THEN IF bsSide = "BUY"
         THEN FMul(bsIn.entry_price, FAdd(F1, bsCfg.S10_BE_SL_OFFSET_PCT))
         ELSE FMul(bsIn.entry_price, FSub(F1, bsCfg.S10_BE_SL_OFFSET_PCT))
    ELSE None

\* be_stop: proposed once the gate has passed and break-even is not yet applied
be_stop(bsCfg, bsSide, bsIn, bsGate) ==
    IF bsGate /\ ~bsIn.be_applied
    THEN IF bsSide = "BUY"
         THEN FMul(bsIn.entry_price, FAdd(F1, bsCfg.S10_BE_SL_OFFSET_PCT))
         ELSE FMul(bsIn.entry_price, FSub(F1, bsCfg.S10_BE_SL_OFFSET_PCT))
    ELSE None

\* the weak multiplier whenever the strong one is not earned by ADX, adaptive
\* or not
atr_mult_weak_unless_trend(amCfg, amIn) ==
    Let(IF amCfg.S10_USE_ADAPTIVE_TRAIL /\ amIn.adx # None
           /\ FGe(amIn.adx, amCfg.S10_ADX_TREND_MIN)
        THEN amCfg.S10_TRAIL_ATR_MULT_STRONG
        ELSE amCfg.S10_TRAIL_ATR_MULT_WEAK, LAMBDA amM :
        IF amIn.is_stacked_trade
           /\ (amIn.adx = None \/ FLt(amIn.adx, amCfg.S10_ADX_TREND_MIN))
        THEN FAdd(amM, amCfg.S10_STACKED_WIDER_MULT_BONUS)
        ELSE amM)

\* atr_mult: strong or weak multiplier by ADX, widened for a stacked trade
atr_mult(amCfg, amIn) ==
    Let(IF amCfg.S10_USE_ADAPTIVE_TRAIL /\ amIn.adx # None
           /\ FGe(amIn.adx, amCfg.S10_ADX_TREND_MIN)
        THEN amCfg.S10_TRAIL_ATR_MULT_STRONG
        ELSE IF amCfg.S10_USE_ADAPTIVE_TRAIL THEN amCfg.S10_TRAIL_ATR_MULT_WEAK
             ELSE amCfg.S10_TRAIL_ATR_MULT_STRONG, LAMBDA amM :
        IF amIn.is_stacked_trade
           /\ (amIn.adx = None \/ FLt(amIn.adx, amCfg.S10_ADX_TREND_MIN))
        THEN FAdd(amM, amCfg.S10_STACKED_WIDER_MULT_BONUS)
        ELSE amM)

\* the candidate without its buffer
buffered_candidate_unbuffered(bcCfg, bcSide, bcIn, bcMult, bcAtr) ==
    IF bcSide = "BUY"
    THEN FMax(IF bcIn.last_swing_low # None THEN bcIn.last_swing_low
              ELSE FSub(bcIn.current_price, FMul(F4, bcAtr)),
              FSub(bcIn.current_price, FMul(bcMult, bcAtr)))
    ELSE FMin(IF bcIn.last_swing_high # None THEN bcIn.last_swing_high
              ELSE FAdd(bcIn.current_price, FMul(F4, bcAtr)),
              FAdd(bcIn.current_price, FMul(bcMult, bcAtr)))

\* candidate less (BUY) or plus (SELL) the buffer: the better of the pivot stop
\* and the ATR stop, before the ratchet
buffered_candidate(bcCfg, bcSide, bcIn, bcMult, bcAtr) ==
    IF bcSide = "BUY"
    THEN Let(IF bcIn.last_swing_low # None THEN bcIn.last_swing_low
             ELSE FSub(bcIn.current_price, FMul(F4, bcAtr)), LAMBDA bcPivot :
         Let(FSub(bcIn.current_price, FMul(bcMult, bcAtr)), LAMBDA bcAtrStop :
             FSub(FMax(bcPivot, bcAtrStop), FMul(bcCfg.S10_TRAIL_BUFFER_MULT, bcAtr))))
    ELSE Let(IF bcIn.last_swing_high # None THEN bcIn.last_swing_high
             ELSE FAdd(bcIn.current_price, FMul(F4, bcAtr)), LAMBDA bcPivot :
         Let(FAdd(bcIn.current_price, FMul(bcMult, bcAtr)), LAMBDA bcAtrStop :
             FAdd(FMin(bcPivot, bcAtrStop), FMul(bcCfg.S10_TRAIL_BUFFER_MULT, bcAtr))))

\* "Monotonic vs current SL": max with current_sl (BUY), min (SELL), if present
ratchet(raSide, raSl, raCur) ==
    IF raCur = None THEN raSl
    ELSE IF raSide = "BUY" THEN FMax(raSl, raCur) ELSE FMin(raSl, raCur)

\* "Do not cross current price": at least one tick on the stop's side of it
keep_off_price(kpSide, kpSl, kpPrice, kpTick) ==
    IF kpSide = "BUY" THEN FMin(kpSl, FSub(kpPrice, kpTick))
    ELSE FMax(kpSl, FAdd(kpPrice, kpTick))

\* new_sl as the min-move guard sees it: candidate, ratchet, price clamp, tick
new_sl(nsCfg, nsSide, nsIn, nsMult, nsAtr) ==
    Let(buffered_candidate(nsCfg, nsSide, nsIn, nsMult, nsAtr), LAMBDA nsA :
    Let(ratchet(nsSide, nsA, nsIn.current_sl), LAMBDA nsB :
    Let(keep_off_price(nsSide, nsB, nsIn.current_price, nsIn.tick_size_abs), LAMBDA nsC :
        _round_to_tick(nsC, nsIn.tick_size_abs, IF nsSide = "BUY" THEN "down" ELSE "up"))))

\* the bar guard covering the entry bar only
no_trail_guard_entry_bar_only(ntCfg, ntIn) == ntIn.time_since_entry_bars < 1

\* "No-trail guard for first bars"
no_trail_guard(ntCfg, ntIn) == ntIn.time_since_entry_bars < ntCfg.S10_NO_TRAIL_BARS

\* no partial close at all
partial_close_pct_never(pcCfg, pcIn, pcR) == None

\* partial_close_pct of the trail-update return
partial_close_pct(pcCfg, pcIn, pcR) ==
    IF pcIn.is_stacked_trade /\ FGe(pcR, F1) THEN pcCfg.S10_STACKED_PARTIAL_CLOSE_PCT
    ELSE None

\* the trail with the minimum move derived from the instrument's taker fee
\* (inputs.taker_fee_pct) instead of the configured one
trail_fee_from_inputs(trCfg, trSide, trIn, trRpu, trR, trBe) ==
    Let(atr_mult(trCfg, trIn), LAMBDA trMult :
    Let(new_sl(trCfg, trSide, trIn, trMult, FMax(Eps, trIn.atr)), LAMBDA trSl :
    Let(_min_sl_move_threshold([trCfg EXCEPT !.S10_TAKER_FEE_PCT = trIn.taker_fee_pct],
                               trIn.current_price, trIn.tick_size_abs), LAMBDA trMin :
        IF trIn.current_sl # None /\ FLt(FAbs(FSub(trSl, trIn.current_sl)), trMin)
        THEN Frame(S10TrailOutputs(trBe, None, None, TRUE, "min-move guard"),
                   trRpu, trR, TRUE, trMult, trSl, trMin)
        ELSE Frame(S10TrailOutputs(trBe, trSl, partial_close_pct(trCfg, trIn, trR),
                                   TRUE, "trail-update"),
                   trRpu, trR, TRUE, trMult, trSl, trMin))))

\* the part of compute_s10_trailing_update after both early returns
trail(trCfg, trSide, trIn, trRpu, trR, trBe) ==
    Let(atr_mult(trCfg, trIn), LAMBDA trMult :
    Let(new_sl(trCfg, trSide, trIn, trMult, FMax(Eps, trIn.atr)), LAMBDA trSl :
    Let(_min_sl_move_threshold(trCfg, trIn.current_price, trIn.tick_size_abs), LAMBDA trMin :
        IF trIn.current_sl # None /\ FLt(FAbs(FSub(trSl, trIn.current_sl)), trMin)
        THEN Frame(S10TrailOutputs(trBe, None, None, TRUE, "min-move guard"),
                   trRpu, trR, TRUE, trMult, trSl, trMin)
        ELSE Frame(S10TrailOutputs(trBe, trSl, partial_close_pct(trCfg, trIn, trR),
                                   TRUE, "trail-update"),
                   trRpu, trR, TRUE, trMult, trSl, trMin))))

\* compute_s10_trailing_update(cfg, inputs)
compute_s10_trailing_update(cuCfg, cuIn) ==
    Let(Upper(cuIn.side), LAMBDA cuSide :
    IF cuSide \notin {"BUY", "SELL"}
    THEN Frame(Raised("AssertionError"), None, None, None, None, None, None)
    ELSE
    Let(r_per_unit(cuSide, cuIn), LAMBDA cuRpu :
    Let(_r_multiple(cuSide, cuIn.entry_price, cuIn.current_price, cuRpu), LAMBDA cuR :
    IF cuCfg.S10_BE_TRIGGER_PCT # None /\ cuIn.entry_price = F0
    THEN Frame(Raised("ZeroDivisionError"), cuRpu, cuR, None, None, None, None)
    ELSE
    Let(passed_gate(cuCfg, cuSide, cuIn, cuR), LAMBDA cuGate :
    Let(be_stop(cuCfg, cuSide, cuIn, cuGate), LAMBDA cuBe :
        IF no_trail_guard(cuCfg, cuIn)
        THEN Frame(S10TrailOutputs(cuBe, None, None, cuGate, "no-trail initial bars"),
                   cuRpu, cuR, cuGate, None, None, None)
        ELSE IF ~cuGate
        THEN Frame(S10TrailOutputs(cuBe, None, None, FALSE, "gate not passed"),
                   cuRpu, cuR, cuGate, None, None, None)
        ELSE trail(cuCfg, cuSide, cuIn, cuRpu, cuR, cuBe))))))

\* ---------------------------------------------------------------------------
\* Bounded inputs.  Prices are decimal literals: tenths around an entry of
\* 100.0 with tick 0.1, and hundredths around 0.50 with tick 0.01.
\* ---------------------------------------------------------------------------
MaxBars == 2          \* time_since_entry_bars ranges over 0..MaxBars
MaxMove == 6          \* favourable price moves of 0..MaxMove half-points
MaxAdverse == 2       \* adverse price moves of 1..MaxAdverse half-points
MaxCalls == 3         \* calls in one session of a trade

\* S10TrailInputs(...), adx_period left at its default
S10TrailInputs(tiSide, tiEntry, tiPrice, tiSl, tiStop, tiAdx, tiAtr, tiLow, tiHigh, tiBars, tiBe, tiAct, tiStacked, tiTick, tiFee) ==
    [ side |-> tiSide, entry_price |-> tiEntry, current_price |-> tiPrice,
      current_sl |-> tiSl, initial_stop |-> tiStop, adx |-> tiAdx, atr |-> tiAtr,
      last_swing_low |-> tiLow, last_swing_high |-> tiHigh,
      time_since_entry_bars |-> tiBars, be_applied |-> tiBe,
      trailing_activated |-> tiAct, is_stacked_trade |-> tiStacked,
      tick_size_abs |-> tiTick, taker_fee_pct |-> tiFee, adx_period |-> 14 ]

\* decimal literals in tenths (95.0 .. 105.0) and in hundredths (0.01 .. 1.00),
\* each converted once
TenthsTable == <<>> \o [dtI \in 1..101 |-> Dec(949 + dtI, 1)]
Tenths(dtN) == TenthsTable[dtN - 949]
CentsTable == <<>> \o [dcI \in 1..100 |-> Dec(dcI, 2)]
Cents(dhN) == CentsTable[dhN]

Dir(drSide) == IF drSide = "BUY" THEN 1 ELSE -1
Sides == {"BUY", "SELL"}
Fee == Dec(7, 4)
TickTenth == Dec(1, 1)
TickCent == Dec(1, 2)

\* configurations: the defaults, the percent gate (1%), a later R trigger (1.5),
\* adaptive trailing switched off, an explicit minimum stop move (0.05%)
PctGateCfg == load_s10_trailing_config([S10_BE_TRIGGER_PCT |-> Dec(1, 2)])
LateGateCfg == load_s10_trailing_config([S10_BE_TRIGGER_R |-> Dec(15, 1)])
FixedMultCfg == load_s10_trailing_config([S10_USE_ADAPTIVE_TRAIL |-> FALSE])
SmallMoveCfg == load_s10_trailing_config([S10_MIN_SL_MOVE_PCT |-> Dec(5, 4)])

\* gate and bar guard: entry 100, every side of risk, price from a point
\* against the trade to three points in favour, no current stop
Moves == {-5 * mvI : mvI \in 1..MaxAdverse} \cup {5 * mvI : mvI \in 0..MaxMove}
GateCases ==
    { [cfg |-> gcCfg,
       inputs |-> S10TrailInputs(gcSide, Tenths(1000), Tenths(1000 + Dir(gcSide) * gcMove),
                    None, Tenths(1000 - Dir(gcSide) * gcRisk), FromInt(30), F1,
                    IF gcSide = "BUY" THEN Tenths(1010) ELSE None,
                    IF gcSide = "SELL" THEN Tenths(990) ELSE None,
                    gcBars, gcBe, FALSE, gcStacked, TickTenth, Fee)] :
      gcCfg \in {DefaultCfg, PctGateCfg, LateGateCfg}, gcSide \in Sides,
      gcRisk \in {20, 0, -10}, gcMove \in Moves, gcBars \in 0..MaxBars,
      gcBe \in BOOLEAN, gcStacked \in BOOLEAN }

\* trailing: gate passed at R = 1.2 or 1.5, bar guard over, ATR 1.0 or 0,
\* and the current stop absent, at the initial stop, next to the candidates
\* and beyond price
TrailCases ==
    { [cfg |-> tcCfg,
       inputs |-> S10TrailInputs(tcSide, Tenths(1000), Tenths(1000 + Dir(tcSide) * tcMove),
                    IF tcSl = <<>> THEN None ELSE Tenths(1000 + Dir(tcSide) * tcSl[1]),
                    Tenths(1000 - Dir(tcSide) * 20), tcAdx, tcAtr,
                    IF tcSide = "BUY" /\ tcSwing THEN Tenths(1010) ELSE None,
                    IF tcSide = "SELL" /\ tcSwing THEN Tenths(990) ELSE None,
                    tcBars, FALSE, TRUE, tcStacked, tcTick, Fee)] :
      tcCfg \in {DefaultCfg, FixedMultCfg, SmallMoveCfg}, tcSide \in Sides, tcMove \in {24, 30},
      tcSl \in {<<>>, <<-20>>, <<-1>>, <<6>>, <<40>>},
      tcAdx \in {None, FromInt(20), FromInt(30)}, tcAtr \in {F1, F0},
      tcSwing \in BOOLEAN,
      tcBars \in 2..MaxBars, tcStacked \in BOOLEAN, tcTick \in {TickTenth, F0} }

\* a low-priced instrument, tick 0.01: BUY entered at 0.50 with stop 0.40 and
\* price from 0.70, SELL entered at 0.65 with stop 0.75 and price from 0.45;
\* sl is a stop the engine returns, far a stop beyond price
Penny(pnSide) ==
    IF pnSide = "BUY"
    THEN [entry |-> 50, stop |-> 40, price |-> 70, swing |-> 61, sl |-> 59, far |-> 80]
    ELSE [entry |-> 65, stop |-> 75, price |-> 45, swing |-> 54, sl |-> 56, far |-> 35]
\* what the market supplies at one call: ATR (hundredths), ADX, a swing level or none
Markets ==
    { [atr |-> 5, adx |-> 30, swing |-> TRUE], [atr |-> 10, adx |-> 30, swing |-> FALSE],
      [atr |-> 5, adx |-> 20, swing |-> TRUE], [atr |-> 10, adx |-> 20, swing |-> FALSE] }
PennyPrices(ppSide) == {Cents(Penny(ppSide).price + Dir(ppSide) * 5 * ppI) : ppI \in 0..MaxCalls - 1}
PennyInputs(piSide, piPrice, piSl, piMkt, piBars, piBe) ==
    S10TrailInputs(piSide, Cents(Penny(piSide).entry), piPrice, piSl,
        Cents(Penny(piSide).stop), FromInt(piMkt.adx), Cents(piMkt.atr),
        IF piSide = "BUY" /\ piMkt.swing THEN Cents(Penny(piSide).swing) ELSE None,
        IF piSide = "SELL" /\ piMkt.swing THEN Cents(Penny(piSide).swing) ELSE None,
        piBars, piBe, piBe, FALSE, TickCent, Fee)
PennyCases ==
    { [cfg |-> DefaultCfg,
       inputs |-> PennyInputs(pcSide, Cents(Penny(pcSide).price + Dir(pcSide) * 5 * pcMove),
                    IF pcSl = 0 THEN None
                    ELSE IF pcSl = 1 THEN Cents(Penny(pcSide).stop)
                    ELSE IF pcSl = 2 THEN Cents(Penny(pcSide).sl)
                    ELSE Cents(Penny(pcSide).far),
                    pcMkt, pcBars, pcSl = 2)] :
      pcSide \in Sides, pcMove \in 0..1, pcSl \in 0..3, pcMkt \in Markets,
      pcBars \in 2..MaxBars }

\* side strings as callers may spell them, and an entry price of zero
OddCases ==
    { [cfg |-> DefaultCfg,
       inputs |-> S10TrailInputs(ocSide, Tenths(1000), Tenths(1030), None, Tenths(980),
                    FromInt(30), F1, Tenths(1010), None, 2, FALSE, FALSE, FALSE,
                    TickTenth, Fee)] : ocSide \in {"buy", "sell", "LONG", ""} }
    \cup
    { [cfg |-> ocCfg,
       inputs |-> S10TrailInputs(ocSide, F0, F1, None, F0, None, F1, None, None,
                    2, FALSE, FALSE, FALSE, TickTenth, Fee)] :
      ocCfg \in {DefaultCfg, PctGateCfg}, ocSide \in Sides }

Cases == GateCases \cup TrailCases \cup PennyCases \cup OddCases

\* ---------------------------------------------------------------------------
\* State: the configuration and inputs of the latest (or coming) call, what the
\* latest call left behind, and what the caller keeps between calls.
\* ---------------------------------------------------------------------------
VARIABLES cfg, inputs, frame, calls, prev_out, prev_trail
\* src/app.py: the shared trade collection, its lock, the managed_trades table
\* of the database and the trade history, the positions open on the exchange,
\* and the tasks working on them (each with its position and locals)
VARIABLES managed_trades, managed_trades_lock, notified_rogue_symbols, db, exchange, reconcile, rogue, entry, concurrent
\* src/app.py: CONFIG["DRY_RUN"], the debug_scan_once requests in flight, and
\* the DRY_RUN values their evaluate_and_enter calls ran under
VARIABLES DRY_RUN, requests, evaluated, configured
\* src/app.py: the bar table handed to an indicator, the table as it was
\* before the call, the indicator called, the period or lookback it was given
\* and what it returned
VARIABLES df, df_before, indicator, argument, returned, ncalls
\* src/app.py: the last bar of a rogue position's symbol (close, ATR, supertrend)
\* with the position's side, and what the import made of it
VARIABLES position, imported
\* src/app.py: the threading.Lock inside DualLock (who holds it), the async
\* tasks using it (each with the worker thread of its __aenter__) and the
\* threads using it
VARIABLES _lock, tasks, threads
\* src/app.py: the multiplier compute_s10_mult returned for the ADX and the
\* stacked flag of the engine's inputs
VARIABLES mult

engineVars == <<cfg, inputs, frame, calls, prev_out, prev_trail>>
tradeVars == <<managed_trades, managed_trades_lock, notified_rogue_symbols, db, exchange, reconcile, rogue, entry, concurrent>>
debugVars == <<DRY_RUN, requests, evaluated, configured>>
tableVars == <<df, df_before, indicator, argument, returned, ncalls>>
importVars == <<position, imported>>
lockVars == <<_lock, tasks, threads>>
multVars == <<mult>>
vars == <<engineVars, tradeVars, debugVars, tableVars, importVars, lockVars, multVars>>

\* the parts of the program a specification leaves out stay as constructed
EngineIdle ==
    /\ cfg = None /\ inputs = None /\ frame = None /\ calls = 0
    /\ prev_out = None /\ prev_trail = None
TradesIdle ==
    /\ managed_trades = <<>> /\ managed_trades_lock = None
    /\ notified_rogue_symbols = {} /\ db = None /\ exchange = {}
    /\ reconcile = None /\ rogue = None /\ entry = None /\ concurrent = {}
DebugIdle == DRY_RUN = FALSE /\ requests = <<>> /\ evaluated = {} /\ configured = FALSE
TableIdle ==
    /\ df = <<>> /\ df_before = <<>> /\ indicator = None /\ returned = None
    /\ ncalls = 0 /\ argument = None
ImportIdle == position = None /\ imported = None
LockIdle == _lock = None /\ tasks = <<>> /\ threads = <<>>
MultIdle == mult = None

Init ==
    /\ \E inC \in Cases : cfg = inC.cfg /\ inputs = inC.inputs
    /\ frame = None /\ calls = 0 /\ prev_out = None /\ prev_trail = None
    /\ TradesIdle /\ DebugIdle /\ TableIdle /\ ImportIdle /\ LockIdle /\ MultIdle

\* a call that records its break-even proposal in the inputs object
Call_recording_break_even ==
    /\ calls = 0
    /\ frame' = compute_s10_trailing_update(cfg, inputs)
    /\ inputs' = IF frame'.out.exc = "none" /\ frame'.out.be_stop # None
                 THEN [inputs EXCEPT !.be_applied = TRUE] ELSE inputs
    /\ calls' = 1
    /\ UNCHANGED <<cfg, prev_out, prev_trail>>
    /\ UNCHANGED <<tradeVars, debugVars, tableVars, importVars, lockVars, multVars>>

\* the first call of compute_s10_trailing_update(cfg, inputs)
Call ==
    /\ calls = 0
    /\ frame' = compute_s10_trailing_update(cfg, inputs)
    /\ calls' = 1
    /\ UNCHANGED <<cfg, inputs, prev_out, prev_trail>>
    /\ UNCHANGED <<tradeVars, debugVars, tableVars, importVars, lockVars, multVars>>

\* the same call again, identical except that be_applied is now True
CallBeApplied ==
    /\ calls = 1 /\ frame.out.exc = "none" /\ ~inputs.be_applied
    /\ inputs' = [inputs EXCEPT !.be_applied = TRUE]
    /\ frame' = compute_s10_trailing_update(cfg, inputs')
    /\ prev_out' = frame.out
    /\ calls' = 2
    /\ UNCHANGED <<cfg, prev_trail>>
    /\ UNCHANGED <<tradeVars, debugVars, tableVars, importVars, lockVars, multVars>>

Next == Call \/ CallBeApplied
Spec == Init /\ [][Next]_vars

\* ---------------------------------------------------------------------------
\* A session: consecutive calls for one trade.  The caller feeds the returned
\* trailing stop back as current_sl and sets be_applied once be_stop was
\* proposed; price only moves in the trade's favour; the market supplies any
\* ATR, ADX and swing level at each call.
\* ---------------------------------------------------------------------------
SessionInit ==
    /\ cfg = DefaultCfg
    /\ \E siSide \in Sides, siMkt \in Markets :
          inputs = PennyInputs(siSide, Cents(Penny(siSide).price),
                               Cents(Penny(siSide).stop), siMkt, 1, FALSE)
    /\ frame = None /\ calls = 0 /\ prev_out = None /\ prev_trail = None
    /\ TradesIdle /\ DebugIdle /\ TableIdle /\ ImportIdle /\ LockIdle /\ MultIdle

NextCall ==
    /\ calls >= 1 /\ calls < MaxCalls /\ frame.out.exc = "none"
    /\ \E ncPrice \in PennyPrices(inputs.side), ncMkt \in Markets :
          /\ IF inputs.side = "BUY" THEN FGe(ncPrice, inputs.current_price)
             ELSE FLe(ncPrice, inputs.current_price)
          /\ inputs' = PennyInputs(inputs.side, ncPrice,
                         IF frame.out.new_trailing_sl # None
                         THEN frame.out.new_trailing_sl ELSE inputs.current_sl,
                         ncMkt,
                         IF inputs.time_since_entry_bars < MaxBars
                         THEN inputs.time_since_entry_bars + 1 ELSE MaxBars,
                         inputs.be_applied \/ frame.out.be_stop # None)
    /\ frame' = compute_s10_trailing_update(cfg, inputs')
    /\ prev_out' = frame.out
    /\ prev_trail' = IF frame.out.new_trailing_sl # None
                     THEN frame.out.new_trailing_sl ELSE prev_trail
    /\ calls' = calls + 1
    /\ UNCHANGED cfg
    /\ UNCHANGED <<tradeVars, debugVars, tableVars, importVars, lockVars, multVars>>

SessionNext == Call \/ NextCall
SessionSpec == SessionInit /\ [][SessionNext]_vars

\* ---------------------------------------------------------------------------
\* Two calls with the same configuration and inputs objects.
\* ---------------------------------------------------------------------------
RepeatCases ==
    PennyCases \cup OddCases
    \cup {rcC \in TrailCases : rcC.cfg = SmallMoveCfg /\ rcC.inputs.atr = F1}

RepeatInit ==
    /\ \E riC \in RepeatCases : cfg = riC.cfg /\ inputs = riC.inputs
    /\ frame = None /\ calls = 0 /\ prev_out = None /\ prev_trail = None
    /\ TradesIdle /\ DebugIdle /\ TableIdle /\ ImportIdle /\ LockIdle /\ MultIdle

\* compute_s10_trailing_update(cfg, inputs) called again, nothing touched
\* in between
CallRepeat ==
    /\ calls = 1
    /\ frame' = compute_s10_trailing_update(cfg, inputs)
    /\ prev_out' = frame.out
    /\ calls' = 2
    /\ UNCHANGED <<cfg, inputs, prev_trail>>
    /\ UNCHANGED <<tradeVars, debugVars, tableVars, importVars, lockVars, multVars>>

RepeatNext == Call \/ CallRepeat
RepeatSpec == RepeatInit /\ [][RepeatNext]_vars

\* ---------------------------------------------------------------------------
\* Two calls whose inputs differ in trailing_activated, taker_fee_pct and
\* adx_period only.
\* ---------------------------------------------------------------------------
VariantCases ==
    PennyCases \cup OddCases
    \cup {vcC \in TrailCases : vcC.cfg = DefaultCfg /\ vcC.inputs.atr = F1
                               /\ vcC.inputs.tick_size_abs = TickTenth}

\* another taker fee (0.2%) and another ADX period
OtherFee == Dec(2, 3)
OtherPeriod == 7

\* inputs changed in one of the three fields, or in all three
Variants(vrIn) ==
    { [vrIn EXCEPT !.trailing_activated = ~@],
      [vrIn EXCEPT !.taker_fee_pct = OtherFee],
      [vrIn EXCEPT !.adx_period = OtherPeriod],
      [vrIn EXCEPT !.trailing_activated = ~@, !.taker_fee_pct = OtherFee,
                   !.adx_period = OtherPeriod] }

VariantInit ==
    /\ \E viC \in VariantCases : cfg = viC.cfg /\ inputs = viC.inputs
    /\ frame = None /\ calls = 0 /\ prev_out = None /\ prev_trail = None
    /\ TradesIdle /\ DebugIdle /\ TableIdle /\ ImportIdle /\ LockIdle /\ MultIdle

\* compute_s10_trailing_update(cfg, variant) after compute_s10_trailing_update(cfg, inputs)
CallVariant ==
    /\ calls = 1
    /\ \E cvIn \in Variants(inputs) :
          /\ inputs' = cvIn
          /\ frame' = compute_s10_trailing_update(cfg, cvIn)
    /\ prev_out' = frame.out
    /\ calls' = 2
    /\ UNCHANGED <<cfg, prev_trail>>
    /\ UNCHANGED <<tradeVars, debugVars, tableVars, importVars, lockVars, multVars>>

VariantNext == Call \/ CallVariant
VariantSpec == VariantInit /\ [][VariantNext]_vars

\* ---------------------------------------------------------------------------
\* src/app.py: managed_trades under reconcile_open_trades,
\* check_and_import_rogue_trades and an entry made by another thread.
\* An "async with managed_trades_lock" is two steps: the acquire (awaited in a
\* worker thread) and the body with the release.  Between two awaits a task
\* runs alone on the event loop; threads run at any time.
\* ---------------------------------------------------------------------------
MaxStamp == 2         \* int(time.time()) of an import is 1..MaxStamp
MaxChecks == 2        \* runs of check_and_import_rogue_trades
MaxEntries == 1       \* trades entered by another thread

Symbols == {"BTCUSDT", "ETHUSDT"}
Stamps == 1..MaxStamp

\* a trade id: f"{symbol}_imported_{int(time.time())}" for an import
TradeId(tiSymbol, tiOrigin, tiTs) == [symbol |-> tiSymbol, origin |-> tiOrigin, ts |-> tiTs]
\* the record kept under a trade id
Meta(mtId) == [id |-> mtId, symbol |-> mtId.symbol]
\* {id: meta} for a set of ids
DictOf(doIds) == [doK \in doIds |-> Meta(doK)]
\* dict.update
DictUpdate(duA, duB) ==
    [duK \in DOMAIN duA \cup DOMAIN duB |-> IF duK \in DOMAIN duB THEN duB[duK] ELSE duA[duK]]
\* {t['symbol'] for t in d.values()}
SymbolsOf(soD) == {soD[soK].symbol : soK \in DOMAIN soD}

\* _import_rogue_position_async(symbol, position): what it may do.  The record
\* is saved by add_managed_trade_to_db before the close orders are cancelled
\* and the stop is placed; any exception ends in "return None".
ImportOutcomes(ioSymbol) ==
    { [id |-> TradeId(ioSymbol, "imported", ioTs), saved |-> ioSaved, returned |-> ioRet] :
      ioTs \in Stamps, ioSaved \in BOOLEAN, ioRet \in BOOLEAN }
\* the outcomes that exist: a returned record was saved
_import_rogue_position_async(irSymbol) ==
    {irO \in ImportOutcomes(irSymbol) : irO.returned => irO.saved}

\* after load_state_from_db_sync: managed_trades holds the rows of the table
TradesInit ==
    /\ EngineIdle /\ DebugIdle /\ TableIdle /\ ImportIdle /\ LockIdle /\ MultIdle
    /\ \E tiOpen \in SUBSET Symbols, tiHeld \in SUBSET Symbols :
        /\ exchange = tiOpen
        /\ managed_trades = DictOf({TradeId(tiS, "entry", 0) : tiS \in tiHeld})
        /\ db = [managed |-> {TradeId(tiS, "entry", 0) : tiS \in tiHeld}, trades |-> {}]
        /\ managed_trades_lock = "free"
        /\ notified_rogue_symbols = {}
        /\ reconcile = [pc |-> "start", db_trades |-> <<>>, open_positions |-> {},
                        retained_trades |-> <<>>, todo |-> {}, fetch |-> "none",
                        failed |-> {}]
        /\ rogue = [pc |-> "start", open_positions |-> {}, todo |-> {},
                    result |-> None, checks |-> 0,
                    attempts |-> [tiS \in Symbols |-> 0], skipped |-> {}]
        /\ entry = [pc |-> "idle", entries |-> 0]
        /\ concurrent = {}

\* reconcile_open_trades, lines 910-911: async with managed_trades_lock
ReconcileAcquire ==
    /\ reconcile.pc = "start" /\ managed_trades_lock = "free"
    /\ managed_trades_lock' = "reconcile"
    /\ reconcile' = [reconcile EXCEPT !.pc = "snapshot"]
    /\ UNCHANGED <<engineVars, debugVars, tableVars, importVars, lockVars, multVars>>
    /\ UNCHANGED <<managed_trades, notified_rogue_symbols, db, exchange, rogue, entry, concurrent>>

\* db_trades = dict(managed_trades), and the lock is released
ReconcileSnapshot ==
    /\ reconcile.pc = "snapshot"
    /\ reconcile' = [reconcile EXCEPT !.pc = "fetch", !.db_trades = managed_trades]
    /\ managed_trades_lock' = "free"
    /\ UNCHANGED <<engineVars, debugVars, tableVars, importVars, lockVars, multVars>>
    /\ UNCHANGED <<managed_trades, notified_rogue_symbols, db, exchange, rogue, entry, concurrent>>

\* lines 916-918: client is None
ReconcileNoClient ==
    /\ reconcile.pc = "fetch"
    /\ reconcile' = [reconcile EXCEPT !.pc = "done", !.fetch = "no client"]
    /\ UNCHANGED <<engineVars, debugVars, tableVars, importVars, lockVars, multVars>>
    /\ UNCHANGED <<managed_trades, managed_trades_lock, notified_rogue_symbols, db, exchange, rogue, entry, concurrent>>

\* lines 920-924: the positions with a non-zero amount
ReconcileFetch ==
    /\ reconcile.pc = "fetch"
    /\ reconcile' = [reconcile EXCEPT !.pc = "archive", !.fetch = "ok",
                                      !.open_positions = exchange]
    /\ UNCHANGED <<engineVars, debugVars, tableVars, importVars, lockVars, multVars>>
    /\ UNCHANGED <<managed_trades, managed_trades_lock, notified_rogue_symbols, db, exchange, rogue, entry, concurrent>>

\* lines 926-930: the fetch raised; managed_trades = {} and return
ReconcileFetchFailed ==
    /\ reconcile.pc = "fetch"
    /\ managed_trades' = <<>>
    /\ reconcile' = [reconcile EXCEPT !.pc = "done", !.fetch = "raised"]
    /\ UNCHANGED <<engineVars, debugVars, tableVars, importVars, lockVars, multVars>>
    /\ UNCHANGED <<managed_trades_lock, notified_rogue_symbols, db, exchange, rogue, entry, concurrent>>

\* lines 932-957: trades with an open position are retained, the others are
\* recorded in the trade history and deleted from the managed_trades table
ReconcileArchive ==
    /\ reconcile.pc = "archive"
    /\ LET raKeep == {raK \in DOMAIN reconcile.db_trades :
                         reconcile.db_trades[raK].symbol \in reconcile.open_positions}
           raGone == DOMAIN reconcile.db_trades \ raKeep
       IN /\ db' = [managed |-> db.managed \ raGone, trades |-> db.trades \cup raGone]
          /\ reconcile' = [reconcile EXCEPT
                 !.pc = "import",
                 !.retained_trades = [raK \in raKeep |-> reconcile.db_trades[raK]],
                 !.todo = reconcile.open_positions
                             \ {reconcile.db_trades[raK].symbol : raK \in raKeep}]
    /\ UNCHANGED <<engineVars, debugVars, tableVars, importVars, lockVars, multVars>>
    /\ UNCHANGED <<managed_trades, managed_trades_lock, notified_rogue_symbols, exchange, rogue, entry, concurrent>>

\* lines 958-963: one turn of the import loop; failed keeps the symbols whose
\* import returned None
ReconcileImport ==
    /\ reconcile.pc = "import" /\ reconcile.todo # {}
    /\ \E riS \in reconcile.todo : \E riO \in _import_rogue_position_async(riS) :
          /\ db' = IF riO.saved THEN [db EXCEPT !.managed = @ \cup {riO.id}] ELSE db
          /\ reconcile' = [reconcile EXCEPT
                 !.todo = @ \ {riS},
                 !.failed = IF riO.returned THEN @ ELSE @ \cup {riS},
                 !.retained_trades =
                     IF riO.returned THEN DictUpdate(@, DictOf({riO.id})) ELSE @]
    /\ UNCHANGED <<engineVars, debugVars, tableVars, importVars, lockVars, multVars>>
    /\ UNCHANGED <<managed_trades, managed_trades_lock, notified_rogue_symbols, exchange, rogue, entry, concurrent>>

\* line 965: async with managed_trades_lock
ReconcileAcquireWrite ==
    /\ reconcile.pc = "import" /\ reconcile.todo = {} /\ managed_trades_lock = "free"
    /\ managed_trades_lock' = "reconcile"
    /\ reconcile' = [reconcile EXCEPT !.pc = "write"]
    /\ UNCHANGED <<engineVars, debugVars, tableVars, importVars, lockVars, multVars>>
    /\ UNCHANGED <<managed_trades, notified_rogue_symbols, db, exchange, rogue, entry, concurrent>>

\* reconcile_open_trades writing the retained trades over what managed_trades
\* holds, without the clear
ReconcileWrite_without_clear ==
    /\ reconcile.pc = "write"
    /\ managed_trades' = DictUpdate(managed_trades, reconcile.retained_trades)
    /\ managed_trades_lock' = "free"
    /\ reconcile' = [reconcile EXCEPT !.pc = "done"]
    /\ UNCHANGED <<engineVars, debugVars, tableVars, importVars, lockVars, multVars>>
    /\ UNCHANGED <<notified_rogue_symbols, db, exchange, rogue, entry, concurrent>>

\* lines 966-967: managed_trades.clear(); managed_trades.update(retained_trades)
ReconcileWrite ==
    /\ reconcile.pc = "write"
    /\ managed_trades' = DictUpdate(<<>>, reconcile.retained_trades)
    /\ managed_trades_lock' = "free"
    /\ reconcile' = [reconcile EXCEPT !.pc = "done"]
    /\ UNCHANGED <<engineVars, debugVars, tableVars, importVars, lockVars, multVars>>
    /\ UNCHANGED <<notified_rogue_symbols, db, exchange, rogue, entry, concurrent>>

\* reconcile_open_trades has started and not returned
Reconciling == reconcile.pc # "done"

\* check_and_import_rogue_trades, lines 981-989, with the fetch raising
\* (caught at line 1017) or client None
RogueFetch ==
    /\ rogue.pc = "start" /\ rogue.checks < MaxChecks
    /\ \E rfOk \in BOOLEAN :
          rogue' = [rogue EXCEPT !.pc = IF rfOk THEN "lock" ELSE "start",
                                 !.checks = IF rfOk THEN @ ELSE @ + 1,
                                 !.open_positions = IF rfOk THEN exchange ELSE @]
    /\ UNCHANGED <<engineVars, debugVars, tableVars, importVars, lockVars, multVars>>
    /\ UNCHANGED <<managed_trades, managed_trades_lock, notified_rogue_symbols, db, exchange, reconcile, entry, concurrent>>

\* line 992: async with managed_trades_lock
RogueAcquireRead ==
    /\ rogue.pc = "lock" /\ managed_trades_lock = "free"
    /\ managed_trades_lock' = "rogue"
    /\ rogue' = [rogue EXCEPT !.pc = "read"]
    /\ UNCHANGED <<engineVars, debugVars, tableVars, importVars, lockVars, multVars>>
    /\ UNCHANGED <<managed_trades, notified_rogue_symbols, db, exchange, reconcile, entry, concurrent>>

\* lines 993-1000: the rogue symbols; return when there are none
RogueRead ==
    /\ rogue.pc = "read"
    /\ managed_trades_lock' = "free"
    /\ LET rrRogue == rogue.open_positions \ SymbolsOf(managed_trades)
       IN rogue' = [rogue EXCEPT !.todo = rrRogue,
                                 !.pc = IF rrRogue = {} THEN "start" ELSE "import",
                                 !.checks = IF rrRogue = {} THEN @ + 1 ELSE @]
    /\ UNCHANGED <<engineVars, debugVars, tableVars, importVars, lockVars, multVars>>
    /\ UNCHANGED <<managed_trades, notified_rogue_symbols, db, exchange, reconcile, entry, concurrent>>

\* check_and_import_rogue_trades importing a rogue symbol without marking it
\* notified
RogueImport_without_notifying ==
    /\ rogue.pc = "import" /\ rogue.todo # {}
    /\ \E gpS \in rogue.todo : \E gpO \in _import_rogue_position_async(gpS) :
          /\ db' = IF gpO.saved THEN [db EXCEPT !.managed = @ \cup {gpO.id}] ELSE db
          /\ rogue' = [rogue EXCEPT !.todo = @ \ {gpS},
                                    !.attempts[gpS] = @ + 1,
                                    !.result = IF gpO.returned THEN gpO.id ELSE None,
                                    !.pc = IF gpO.returned THEN "insert" ELSE "import"]
    /\ UNCHANGED <<engineVars, debugVars, tableVars, importVars, lockVars, multVars>>
    /\ UNCHANGED <<managed_trades, managed_trades_lock, notified_rogue_symbols, exchange, reconcile, entry, concurrent>>

\* lines 1002-1013: one turn of the loop: skip a notified symbol, else mark it
\* notified and import it; attempts counts the imports started per symbol,
\* skipped keeps the symbols passed over as already notified
RogueImport ==
    /\ rogue.pc = "import" /\ rogue.todo # {}
    /\ \E gpS \in rogue.todo :
          IF gpS \in notified_rogue_symbols
          THEN /\ rogue' = [rogue EXCEPT !.todo = @ \ {gpS},
                                         !.skipped = @ \cup {gpS}]
               /\ UNCHANGED <<notified_rogue_symbols, db>>
          ELSE \E gpO \in _import_rogue_position_async(gpS) :
               /\ notified_rogue_symbols' = notified_rogue_symbols \cup {gpS}
               /\ db' = IF gpO.saved THEN [db EXCEPT !.managed = @ \cup {gpO.id}] ELSE db
               /\ rogue' = [rogue EXCEPT !.todo = @ \ {gpS},
                                         !.attempts[gpS] = @ + 1,
                                         !.result = IF gpO.returned THEN gpO.id ELSE None,
                                         !.pc = IF gpO.returned THEN "insert" ELSE "import"]
    /\ UNCHANGED <<engineVars, debugVars, tableVars, importVars, lockVars, multVars>>
    /\ UNCHANGED <<managed_trades, managed_trades_lock, exchange, reconcile, entry, concurrent>>

\* line 1014: async with managed_trades_lock
RogueAcquireInsert ==
    /\ rogue.pc = "insert" /\ managed_trades_lock = "free"
    /\ managed_trades_lock' = "rogue"
    /\ rogue' = [rogue EXCEPT !.pc = "insert locked"]
    /\ UNCHANGED <<engineVars, debugVars, tableVars, importVars, lockVars, multVars>>
    /\ UNCHANGED <<managed_trades, notified_rogue_symbols, db, exchange, reconcile, entry, concurrent>>

\* line 1015: managed_trades[trade_id] = meta
RogueInsert ==
    /\ rogue.pc = "insert locked"
    /\ managed_trades' = DictUpdate(managed_trades, DictOf({rogue.result}))
    /\ managed_trades_lock' = "free"
    /\ concurrent' = IF Reconciling THEN concurrent \cup {rogue.result} ELSE concurrent
    /\ rogue' = [rogue EXCEPT !.pc = "import", !.result = None]
    /\ UNCHANGED <<engineVars, debugVars, tableVars, importVars, lockVars, multVars>>
    /\ UNCHANGED <<notified_rogue_symbols, db, exchange, reconcile, entry>>

\* the loop is over: back to periodic_rogue_check_loop
RogueReturn ==
    /\ rogue.pc = "import" /\ rogue.todo = {}
    /\ rogue' = [rogue EXCEPT !.pc = "start", !.checks = @ + 1]
    /\ UNCHANGED <<engineVars, debugVars, tableVars, importVars, lockVars, multVars>>
    /\ UNCHANGED <<managed_trades, managed_trades_lock, notified_rogue_symbols, db, exchange, reconcile, entry, concurrent>>

\* another thread enters a trade: with managed_trades_lock
EntryAcquire ==
    /\ entry.pc = "idle" /\ entry.entries < MaxEntries /\ managed_trades_lock = "free"
    /\ Symbols \ exchange # {}
    /\ managed_trades_lock' = "entry"
    /\ entry' = [entry EXCEPT !.pc = "locked"]
    /\ UNCHANGED <<engineVars, debugVars, tableVars, importVars, lockVars, multVars>>
    /\ UNCHANGED <<managed_trades, notified_rogue_symbols, db, exchange, reconcile, rogue, concurrent>>

\* the position is open on the exchange, and its trade is saved and inserted
\* into managed_trades under the lock
EntryInsert ==
    /\ entry.pc = "locked"
    /\ \E eiS \in Symbols \ exchange, eiTs \in Stamps :
          LET eiId == TradeId(eiS, "entry", eiTs)
          IN /\ exchange' = exchange \cup {eiS}
             /\ db' = [db EXCEPT !.managed = @ \cup {eiId}]
             /\ managed_trades' = DictUpdate(managed_trades, DictOf({eiId}))
             /\ concurrent' = IF Reconciling THEN concurrent \cup {eiId} ELSE concurrent
    /\ managed_trades_lock' = "free"
    /\ entry' = [entry EXCEPT !.pc = "idle", !.entries = @ + 1]
    /\ UNCHANGED <<engineVars, debugVars, tableVars, importVars, lockVars, multVars>>
    /\ UNCHANGED <<notified_rogue_symbols, reconcile, rogue>>

TradesNext ==
    \/ ReconcileAcquire \/ ReconcileSnapshot \/ ReconcileNoClient \/ ReconcileFetch
    \/ ReconcileFetchFailed \/ ReconcileArchive \/ ReconcileImport
    \/ ReconcileAcquireWrite \/ ReconcileWrite
    \/ RogueFetch \/ RogueAcquireRead \/ RogueRead \/ RogueImport
    \/ RogueAcquireInsert \/ RogueInsert \/ RogueReturn
    \/ EntryAcquire \/ EntryInsert
    /\ UNCHANGED <<engineVars, debugVars, tableVars, importVars, lockVars, multVars>>

TradesSpec == TradesInit /\ [][TradesNext]_vars

\* ---------------------------------------------------------------------------
\* src/app.py: GET /debug/scan_once.  Requests are tasks on one event loop: a
\* request runs alone up to its first await (inside evaluate_and_enter) and
\* from the return of its last evaluate_and_enter through the finally block.
\* ---------------------------------------------------------------------------
MaxRequests == 2      \* debug_scan_once requests
MaxSymbols == 2       \* symbols evaluated by one request: 0..MaxSymbols

Requests == 1..MaxRequests

DebugInit ==
    /\ DRY_RUN \in BOOLEAN
    /\ configured = DRY_RUN
    /\ requests = [diR \in Requests |-> [pc |-> "idle", original_dry |-> FALSE, left |-> 0]]
    /\ evaluated = {}
    /\ EngineIdle /\ TradesIdle /\ TableIdle /\ ImportIdle /\ LockIdle /\ MultIdle

\* debug_scan_once, lines 1191-1198 and, with no symbol to evaluate, 1208-1211
debug_scan_once(dsR) ==
    /\ requests[dsR].pc = "idle"
    /\ \E dsN \in 0..MaxSymbols :
          /\ requests' = [requests EXCEPT ![dsR] =
                 [pc |-> IF dsN = 0 THEN "done" ELSE "loop",
                  original_dry |-> DRY_RUN, left |-> dsN]]
          /\ DRY_RUN' = IF dsN = 0 THEN DRY_RUN ELSE TRUE
    /\ UNCHANGED <<evaluated, configured>>
    /\ UNCHANGED <<engineVars, tradeVars, tableVars, importVars, lockVars, multVars>>

\* the request has entered its loop
Start == \E stR \in Requests : debug_scan_once(stR)

\* lines 1202-1207: one evaluate_and_enter(s) runs to its end under the
\* DRY_RUN value it finds, raising or not; after the last one, lines 1208-1211
\* restore CONFIG["DRY_RUN"]
Evaluate ==
    \E evR \in Requests :
        /\ requests[evR].pc = "loop"
        /\ evaluated' = evaluated \cup {[request |-> evR, dry |-> DRY_RUN]}
        /\ IF requests[evR].left > 1
           THEN /\ requests' = [requests EXCEPT ![evR].left = @ - 1]
                /\ UNCHANGED DRY_RUN
           ELSE /\ requests' = [requests EXCEPT ![evR].left = 0, ![evR].pc = "done"]
                /\ DRY_RUN' = requests[evR].original_dry
        /\ UNCHANGED configured
        /\ UNCHANGED <<engineVars, tradeVars, tableVars, importVars, lockVars, multVars>>

DebugNext == Start \/ Evaluate
DebugSpec == DebugInit /\ [][DebugNext]_vars

\* ---------------------------------------------------------------------------
\* src/app.py: the indicator functions and the bar table passed to them.  A
\* table is a function from column names to columns; a computed column is
\* kept as the indicator applied to the columns it was computed from.
\* ---------------------------------------------------------------------------
MaxRows == 3          \* bars in a table: 1..MaxRows
MaxIndicatorCalls == 2 \* indicator calls on one table

\* bars: high, low, close
Bars == { [high |-> 2, low |-> 1, close |-> 1], [high |-> 2, low |-> 1, close |-> 2],
          [high |-> 3, low |-> 2, close |-> 3], [high |-> 3, low |-> 0, close |-> 1] }
Periods == {7, 14}

\* the table of a sequence of bars, with a volume column or without
Table(tbRows, tbVolume) ==
    [tbC \in {"high", "low", "close"} \cup (IF tbVolume THEN {"volume"} ELSE {}) |->
        [tbI \in 1..Len(tbRows) |->
            IF tbC = "volume" THEN 10 ELSE tbRows[tbI][tbC]]]

Tables ==
    { Table(tsRows, tsVolume) :
      tsRows \in UNION {[1..tsN -> Bars] : tsN \in 1..MaxRows}, tsVolume \in BOOLEAN }

\* a column computed by adx from the table's high, low and close
Computed(cpName, cpDf, cpPeriod) ==
    [series |-> cpName, period |-> cpPeriod,
     high |-> cpDf["high"], low |-> cpDf["low"], close |-> cpDf["close"]]

\* df[column] = values
SetColumn(scDf, scName, scValues) ==
    [scC \in DOMAIN scDf \cup {scName} |-> IF scC = scName THEN scValues ELSE scDf[scC]]

\* float('nan')
NaN == [nan |-> TRUE]
\* series.diff(): NaN in the first row
Diff(dfS) == [dfI \in 1..Len(dfS) |-> IF dfI = 1 THEN NaN ELSE dfS[dfI] - dfS[dfI - 1]]
\* series[mask] = 0, the mask given by the rows it holds in; a comparison with
\* NaN is False, so the first row is in no mask
Masked(mkS, mkRows) == [mkI \in 1..Len(mkS) |-> IF mkI \in mkRows THEN 0 ELSE mkS[mkI]]
Rows(rwS) == 2..Len(rwS)

\* adx, lines 2160-2167: +DM and -DM after the four masking assignments
raw_minus_dm(rmDf) ==
    LET rmD == Diff(rmDf["low"])
    IN [rmI \in 1..Len(rmD) |-> IF rmI = 1 THEN NaN ELSE rmD[rmI] * (-1)]
plus_dm(pdDf) ==
    LET pdRaw == Diff(pdDf["high"])
        pdMinus == raw_minus_dm(pdDf)
        pdPos == Masked(pdRaw, {pdI \in Rows(pdRaw) : pdRaw[pdI] < 0})
    IN Masked(pdPos, {pdI \in Rows(pdPos) : pdPos[pdI] < pdMinus[pdI]})
minus_dm(mdDf) ==
    LET mdRaw == raw_minus_dm(mdDf)
        mdPlus == plus_dm(mdDf)
        mdPos == Masked(mdRaw, {mdI \in Rows(mdRaw) : mdRaw[mdI] < 0})
    IN Masked(mdPos, {mdI \in Rows(mdPos) : mdPos[mdI] < mdPlus[mdI]})

\* a directional indicator column: the smoothed movement over the smoothed
\* true range
Directional(drName, drDm, drDf, drPeriod) ==
    [series |-> drName, period |-> drPeriod, dm |-> drDm,
     high |-> drDf["high"], low |-> drDf["low"], close |-> drDf["close"]]

\* the table after adx(df, period), lines 2178-2183: columns +DI, -DI and adx
\* are assigned on the table passed in, and nothing is returned
adx(axDf, axPeriod) ==
    SetColumn(SetColumn(SetColumn(axDf, "+DI", Directional("+DI", plus_dm(axDf), axDf, axPeriod)),
                        "-DI", Directional("-DI", minus_dm(axDf), axDf, axPeriod)),
              "adx", Computed("adx", axDf, axPeriod))

\* what atr, atr_wilder and supertrend return: new series built from the
\* columns they read
atr(atDf, atLength) == Computed("atr", atDf, atLength)
atr_wilder(awDf, awLength) == Computed("atr_wilder", awDf, awLength)
supertrend(suDf, suPeriod) ==
    <<Computed("supertrend", suDf, suPeriod), Computed("supertrend_direction", suDf, suPeriod)>>

RECURSIVE SeqMin(_)
SeqMin(smS) ==
    IF Len(smS) = 1 THEN smS[1]
    ELSE LET smT == SeqMin(Tail(smS)) IN IF smS[1] < smT THEN smS[1] ELSE smT
RECURSIVE SeqMax(_)
SeqMax(sxS) ==
    IF Len(sxS) = 1 THEN sxS[1]
    ELSE LET sxT == SeqMax(Tail(sxS)) IN IF sxS[1] > sxT THEN sxS[1] ELSE sxT
\* series.iloc[-n:]
LastRows(lrS, lrN) == SubSeq(lrS, Len(lrS) - lrN + 1, Len(lrS))

\* swing_low(series_low, lookback) and swing_high(series_high, lookback)
swing_low(slSeries, slLookback) ==
    IF Len(slSeries) < slLookback THEN NaN ELSE SeqMin(LastRows(slSeries, slLookback))
swing_high(shSeries, shLookback) ==
    IF Len(shSeries) < shLookback THEN NaN ELSE SeqMax(LastRows(shSeries, shLookback))

\* _last_closed_slice(df, lookback), for one column of the table: the
\* lookback rows before the last one, or all rows but the last
_last_closed_slice(lcS, lcLookback) ==
    IF Len(lcS) = 0 \/ lcLookback <= 0 THEN <<>>
    ELSE IF Len(lcS) >= lcLookback + 1
         THEN SubSeq(lcS, Len(lcS) - lcLookback, Len(lcS) - 1)
         ELSE SubSeq(lcS, 1, Len(lcS) - 1)

\* get_last_pivot_low(symbol, lookback) and get_last_pivot_high(symbol,
\* lookback) on the table that fetch_klines_sync returned
get_last_pivot_low(plDf, plLookback) ==
    LET plS == _last_closed_slice(plDf["low"], plLookback)
    IN IF Len(plS) = 0 THEN NaN ELSE SeqMin(plS)
get_last_pivot_high(phDf, phLookback) ==
    LET phS == _last_closed_slice(phDf["high"], phLookback)
    IN IF Len(phS) = 0 THEN NaN ELSE SeqMax(phS)

Lookbacks == 0..MaxRows + 1

TableInit ==
    /\ df \in Tables /\ df_before = df /\ indicator = None /\ returned = None
    /\ ncalls = 0 /\ argument = None
    /\ EngineIdle /\ TradesIdle /\ DebugIdle /\ ImportIdle /\ LockIdle /\ MultIdle

\* one indicator called on the table: what it returns and what it leaves of
\* the table
Indicate(inName, inArgument, inReturned, inAfter) ==
    /\ ncalls < MaxIndicatorCalls
    /\ argument' = inArgument
    /\ df_before' = df
    /\ df' = inAfter
    /\ indicator' = inName
    /\ returned' = inReturned
    /\ ncalls' = ncalls + 1
    /\ UNCHANGED <<engineVars, tradeVars, debugVars, importVars, lockVars, multVars>>

CallAtr == \E caP \in Periods : Indicate("atr", caP, atr(df, caP), df)
CallAtrWilder == \E cwP \in Periods : Indicate("atr_wilder", cwP, atr_wilder(df, cwP), df)
CallAdx == \E cxP \in Periods : Indicate("adx", cxP, None, adx(df, cxP))
CallSwingLow == \E clN \in Lookbacks \ {0} : Indicate("swing_low", clN, swing_low(df["low"], clN), df)
CallSwingHigh == \E chN \in Lookbacks \ {0} : Indicate("swing_high", chN, swing_high(df["high"], chN), df)
CallSupertrend == \E csP \in Periods : Indicate("supertrend", csP, supertrend(df, csP), df)
CallGetLastPivotLow ==
    \E glN \in Lookbacks : Indicate("get_last_pivot_low", glN, get_last_pivot_low(df, glN), df)
CallGetLastPivotHigh ==
    \E ghN \in Lookbacks : Indicate("get_last_pivot_high", ghN, get_last_pivot_high(df, ghN), df)

TableNext ==
    \/ CallAtr \/ CallAtrWilder \/ CallAdx \/ CallSwingLow \/ CallSwingHigh
    \/ CallSupertrend \/ CallGetLastPivotLow \/ CallGetLastPivotHigh
TableSpec == TableInit /\ [][TableNext]_vars

\* ---------------------------------------------------------------------------
\* src/app.py: the default stop of an imported position.  The bars of the
\* symbol enter through their last values: the close, the ATR and the
\* supertrend line (NaN where the series has no value).
\* ---------------------------------------------------------------------------
MaxPrice == 20000000  \* the largest close of a bar

\* safe_last(series): the last value, 0.0 for NaN
safe_last(slLast) == IF slLast = NaN THEN F0 ELSE slLast

\* default_sl_tp_for_import(symbol, entry_price, side), lines 1271-1289; every
\* value that reaches np.isfinite here is finite
default_sl_tp_for_import(dsSide, dsBar) ==
    Let(safe_last(dsBar.close), LAMBDA current_price :
    Let(FMax(Dec(1, 9), safe_last(dsBar.atr)), LAMBDA atr_now :
    Let(safe_last(dsBar.st2), LAMBDA st2 :
    Let(IF dsSide = "BUY"
        THEN IF FGe(st2, current_price) \/ FLe(st2, F0)
             THEN FSub(current_price, FMul(Dec(15, 1), atr_now)) ELSE st2
        ELSE IF FLe(st2, current_price) \/ FLe(st2, F0)
             THEN FAdd(current_price, FMul(Dec(15, 1), atr_now)) ELSE st2, LAMBDA validated :
    Let(IF FLe(validated, F0)
        THEN IF dsSide = "BUY" THEN FMul(current_price, FSub(F1, Dec(2, 2)))
                               ELSE FMul(current_price, FAdd(F1, Dec(2, 2)))
        ELSE validated, LAMBDA stop_price :
        [stop_price |-> stop_price, take_price |-> F0, current_price |-> current_price])))))

\* _import_rogue_position_async, lines 832-855: the safety check on the stop
\* and the sl of the record
import_stop(isSide, isBar) ==
    Let(default_sl_tp_for_import(isSide, isBar), LAMBDA isD :
    Let(\/ isSide = "BUY" /\ FGe(isD.stop_price, isD.current_price)
        \/ isSide = "SELL" /\ FLe(isD.stop_price, isD.current_price), LAMBDA isInvalid :
        [stop_price |-> isD.stop_price, current_price |-> isD.current_price,
         invalid_sl |-> isInvalid,
         sl |-> IF isInvalid THEN F0 ELSE isD.stop_price]))

\* the last bars tried: closes above zero, ATR absent, zero, small and larger
\* than the price, supertrend absent, zero, below, at and above the close
ImportCloses == {Cents(50), FromInt(100), FromInt(50000), FromInt(MaxPrice)}
ImportBars ==
    UNION { { [close |-> ibC, atr |-> ibA, st2 |-> ibS] :
                ibA \in {NaN, F0, FMul(ibC, Dec(1, 2)), FMul(ibC, F2)},
                ibS \in {NaN, F0, FMul(ibC, Dec(99, 2)), ibC, FMul(ibC, Dec(101, 2))} } :
            ibC \in ImportCloses }

ImportInit ==
    /\ EngineIdle /\ TradesIdle /\ DebugIdle /\ TableIdle /\ LockIdle /\ MultIdle
    /\ \E iiSide \in Sides, iiBar \in ImportBars :
          position = [side |-> iiSide, bar |-> iiBar]
    /\ imported = None

\* one rogue position imported
ImportPosition ==
    /\ imported = None
    /\ imported' = import_stop(position.side, position.bar)
    /\ UNCHANGED position
    /\ UNCHANGED <<engineVars, tradeVars, debugVars, tableVars, lockVars, multVars>>

ImportNext == ImportPosition
ImportSpec == ImportInit /\ [][ImportNext]_vars

\* ---------------------------------------------------------------------------
\* src/app.py: DualLock.  "async with lock" awaits asyncio.to_thread(
\* self._lock.acquire): a worker thread is queued, starts, and blocks in
\* acquire until the lock is free; the task resumes when the worker has
\* returned.  Cancelling the task while it waits cancels a worker that is
\* still queued; a worker that has started runs on.  The bodies under the
\* lock hold no await, so a task that has resumed runs body and release
\* together.
\* ---------------------------------------------------------------------------
MaxEnters == 2        \* "async with" entries by one task
MaxHolds == 2         \* "with" entries by one thread

Tasks == {"scan_task", "rogue_check_task"}
Threads == {"monitor_thread"}

LockInit ==
    /\ EngineIdle /\ TradesIdle /\ DebugIdle /\ TableIdle /\ ImportIdle /\ MultIdle
    /\ _lock = "free"
    /\ tasks = [liT \in Tasks |-> [pc |-> "idle", worker |-> "none", enters |-> 0]]
    /\ threads = [liH \in Threads |-> [pc |-> "idle", holds |-> 0]]

\* DualLock.__aenter__, line 582: await asyncio.to_thread(self._lock.acquire)
AEnter(aeT) ==
    /\ tasks[aeT].pc = "idle" /\ tasks[aeT].enters < MaxEnters
    /\ tasks' = [tasks EXCEPT ![aeT].pc = "entering", ![aeT].worker = "queued"]
    /\ UNCHANGED <<_lock, threads>>
    /\ UNCHANGED <<engineVars, tradeVars, debugVars, tableVars, importVars, multVars>>

\* the worker thread starts running self._lock.acquire
WorkerStart(wsT) ==
    /\ tasks[wsT].worker = "queued"
    /\ tasks' = [tasks EXCEPT ![wsT].worker = "acquiring"]
    /\ UNCHANGED <<_lock, threads>>
    /\ UNCHANGED <<engineVars, tradeVars, debugVars, tableVars, importVars, multVars>>

\* self._lock.acquire() returns in the worker thread
WorkerAcquire(waT) ==
    /\ tasks[waT].worker = "acquiring" /\ _lock = "free"
    /\ _lock' = waT
    /\ tasks' = [tasks EXCEPT ![waT].worker = "acquired"]
    /\ UNCHANGED threads
    /\ UNCHANGED <<engineVars, tradeVars, debugVars, tableVars, importVars, multVars>>

\* lines 583-586: the task resumes, runs the body and __aexit__ releases
ABody(abT) ==
    /\ tasks[abT].pc = "entering" /\ tasks[abT].worker = "acquired"
    /\ _lock' = "free"
    /\ tasks' = [tasks EXCEPT ![abT].pc = "idle", ![abT].worker = "none",
                              ![abT].enters = @ + 1]
    /\ UNCHANGED threads
    /\ UNCHANGED <<engineVars, tradeVars, debugVars, tableVars, importVars, multVars>>

\* lifespan, lines 1148-1159: task.cancel() while the task waits in
\* __aenter__; CancelledError is raised at the await, __aexit__ does not run
Cancel(cnT) ==
    /\ tasks[cnT].pc = "entering"
    /\ tasks' = [tasks EXCEPT ![cnT].pc = "cancelled",
                              ![cnT].worker = IF @ = "queued" THEN "none" ELSE @]
    /\ UNCHANGED <<_lock, threads>>
    /\ UNCHANGED <<engineVars, tradeVars, debugVars, tableVars, importVars, multVars>>

\* DualLock.__enter__, line 575: a thread calls self._lock.acquire()
Enter(enH) ==
    /\ threads[enH].pc = "idle" /\ threads[enH].holds < MaxHolds
    /\ threads' = [threads EXCEPT ![enH].pc = "waiting"]
    /\ UNCHANGED <<_lock, tasks>>
    /\ UNCHANGED <<engineVars, tradeVars, debugVars, tableVars, importVars, multVars>>

\* the acquire returns
Acquire(acH) ==
    /\ threads[acH].pc = "waiting" /\ _lock = "free"
    /\ _lock' = acH
    /\ threads' = [threads EXCEPT ![acH].pc = "holding"]
    /\ UNCHANGED tasks
    /\ UNCHANGED <<engineVars, tradeVars, debugVars, tableVars, importVars, multVars>>

\* DualLock.__exit__, line 579
Exit(exH) ==
    /\ threads[exH].pc = "holding"
    /\ _lock' = "free"
    /\ threads' = [threads EXCEPT ![exH].pc = "idle", ![exH].holds = @ + 1]
    /\ UNCHANGED tasks
    /\ UNCHANGED <<engineVars, tradeVars, debugVars, tableVars, importVars, multVars>>

AsyncWith == \E awT \in Tasks : AEnter(awT) \/ WorkerStart(awT) \/ WorkerAcquire(awT) \/ ABody(awT)
Shutdown == \E sdT \in Tasks : Cancel(sdT)
With == \E wiH \in Threads : Enter(wiH) \/ Acquire(wiH) \/ Exit(wiH)

LockNext == AsyncWith \/ Shutdown \/ With
LockSpec == LockInit /\ [][LockNext]_vars

\* ---------------------------------------------------------------------------
\* src/app.py: compute_s10_mult, the ATR multiplier the application selects
\* from ADX and the stacked flag, next to the multiplier the engine selects.
\* The function reads the module's S10_* settings; csCfg carries them. A
\* float(None) inside the try block raises TypeError, which the except clause
\* swallows: the multiplier stays at the weak value it started with.
\* ---------------------------------------------------------------------------
compute_s10_mult(csCfg, csAdx, csStacked) ==
    IF csCfg.S10_USE_ADAPTIVE_TRAIL /\ csAdx = None
    THEN csCfg.S10_TRAIL_ATR_MULT_WEAK                 \* float(None) raised
    ELSE IF csCfg.S10_USE_ADAPTIVE_TRAIL /\ FGe(csAdx, csCfg.S10_ADX_TREND_MIN)
    THEN csCfg.S10_TRAIL_ATR_MULT_STRONG
    ELSE IF csStacked /\ csAdx = None
    THEN csCfg.S10_TRAIL_ATR_MULT_WEAK                 \* float(None) raised
    ELSE IF csStacked /\ FLt(csAdx, csCfg.S10_ADX_TREND_MIN)
    THEN FAdd(csCfg.S10_TRAIL_ATR_MULT_WEAK, csCfg.S10_STACKED_WIDER_MULT_BONUS)
    ELSE csCfg.S10_TRAIL_ATR_MULT_WEAK

\* the default configuration with either setting of the adaptive flag, the
\* gate passed at R = 1.2 or 1.5 and the bar guard over, ADX absent, below,
\* at and above S10_ADX_TREND_MIN, stacked or not
MultAdxs == {None, FromInt(20), FromInt(25), FromInt(30)}
MultCases ==
    { [cfg |-> mcCfg,
       inputs |-> S10TrailInputs(mcSide, Tenths(1000), Tenths(1000 + Dir(mcSide) * mcMove),
                    None, Tenths(1000 - Dir(mcSide) * 20), mcAdx, F1, None, None,
                    2, FALSE, TRUE, mcStacked, TickTenth, Fee)] :
      mcCfg \in {DefaultCfg, FixedMultCfg}, mcSide \in Sides, mcMove \in {24, 30},
      mcAdx \in MultAdxs, mcStacked \in BOOLEAN }

MultInit ==
    /\ \E miC \in MultCases : cfg = miC.cfg /\ inputs = miC.inputs
    /\ frame = None /\ calls = 0 /\ prev_out = None /\ prev_trail = None
    /\ mult = None
    /\ TradesIdle /\ DebugIdle /\ TableIdle /\ ImportIdle /\ LockIdle

\* compute_s10_mult(inputs.adx, inputs.is_stacked_trade) under the settings of cfg
CallComputeMult ==
    /\ calls = 1
    /\ mult' = compute_s10_mult(cfg, inputs.adx, inputs.is_stacked_trade)
    /\ calls' = 2
    /\ UNCHANGED <<cfg, inputs, frame, prev_out, prev_trail>>
    /\ UNCHANGED <<tradeVars, debugVars, tableVars, importVars, lockVars>>

MultNext == Call \/ CallComputeMult
MultSpec == MultInit /\ [][MultNext]_vars

\* ---------------------------------------------------------------------------
\* Properties
\* ---------------------------------------------------------------------------
\* the latest call returned a decision (it did not raise)
Returned == calls > 0 /\ frame.out.exc = "none"
\* x is no looser a stop than y for the side: x >= y for BUY, x <= y for SELL
NoLooser(nlSide, nlX, nlY) == IF Upper(nlSide) = "BUY" THEN FGe(nlX, nlY) ELSE FLe(nlX, nlY)

\* C1: in every call with current_sl present that returns a trailing stop, the
\* returned stop is not looser than current_sl (>= for BUY, <= for SELL).
C1_NeverLoosens ==
    (Returned /\ inputs.current_sl # None /\ frame.out.new_trailing_sl # None)
        => NoLooser(inputs.side, frame.out.new_trailing_sl, inputs.current_sl)

\* C1, the state that refutes it without any odd input: the current stop is a
\* stop the engine itself returns (n * tick), strictly inside price - tick, and
\* the call returns a stop one tick looser
C1_LoosenedByRounding ==
    /\ Returned /\ inputs.current_sl # None /\ frame.out.new_trailing_sl # None
    /\ ~NoLooser(inputs.side, frame.out.new_trailing_sl, inputs.current_sl)
    /\ IF inputs.side = "BUY"
       THEN FLe(inputs.current_sl, FSub(inputs.current_price, inputs.tick_size_abs))
       ELSE FGe(inputs.current_sl, FAdd(inputs.current_price, inputs.tick_size_abs))

\* C2: over a session with price moving only in the trade's favour and
\* current_sl fed from the latest returned trailing stop, every returned
\* trailing stop is no looser than the one returned before it.
C2_SessionMonotone ==
    (Returned /\ prev_trail # None /\ frame.out.new_trailing_sl # None)
        => NoLooser(inputs.side, frame.out.new_trailing_sl, prev_trail)

\* C3 as claimed: whatever the configuration, an R-multiple below
\* S10_BE_TRIGGER_R yields no trailing stop and no partial close.
C3_GateHardAnyCfg ==
    (Returned /\ FLt(frame.r_mult, cfg.S10_BE_TRIGGER_R))
        => (frame.out.new_trailing_sl = None /\ frame.out.partial_close_pct = None)

\* C3: when the R gate is the active one (S10_BE_TRIGGER_PCT not set), an
\* R-multiple below S10_BE_TRIGGER_R yields no trailing stop and no partial
\* close, whatever ADX, ATR and swing values are.
C3_GateHardRGate ==
    (Returned /\ cfg.S10_BE_TRIGGER_PCT = None /\ FLt(frame.r_mult, cfg.S10_BE_TRIGGER_R))
        => (frame.out.new_trailing_sl = None /\ frame.out.partial_close_pct = None)

\* C3 happens: bar guard over, a stacked trade at R >= 1.0 but below a trigger
\* of 1.5, and the call returns "gate not passed"
C3_Witness ==
    /\ Returned /\ cfg.S10_BE_TRIGGER_PCT = None /\ ~no_trail_guard(cfg, inputs)
    /\ inputs.is_stacked_trade /\ FGe(frame.r_mult, F1)
    /\ FLt(frame.r_mult, cfg.S10_BE_TRIGGER_R)
    /\ frame.out.reason = "gate not passed" /\ frame.out.new_trailing_sl = None

\* C4: the same call repeated with be_applied True instead of False returns
\* be_stop = None, whichever branch returns.
C4_OneShotBreakEven ==
    (calls = 2 /\ inputs.be_applied) => frame.out.be_stop = None

\* C4 happens: the first call proposed a break-even stop, the repeat with
\* be_applied True reaches the trail-update return and proposes none
C4_Witness ==
    /\ calls = 2 /\ inputs.be_applied /\ prev_out.be_stop # None
    /\ frame.out.reason = "trail-update" /\ frame.out.be_stop = None

\* max(tick_size_abs, min_pct * current_price), min_pct the configured
\* S10_MIN_SL_MOVE_PCT or else max(S10_TICK_SIZE_PCT, 2 * S10_TAKER_FEE_PCT)
MoveThreshold ==
    FMax(inputs.tick_size_abs,
         FMul(IF cfg.S10_MIN_SL_MOVE_PCT # None THEN cfg.S10_MIN_SL_MOVE_PCT
              ELSE FMax(cfg.S10_TICK_SIZE_PCT, FMul(F2, cfg.S10_TAKER_FEE_PCT)),
              inputs.current_price))

\* C5: with current_sl present, once the clamped and tick-rounded candidate is
\* computed, no trailing stop is returned exactly when the candidate differs
\* from current_sl by less than max(tick_size_abs, min_pct * current_price).
C5_MinMoveSuppression ==
    (Returned /\ inputs.current_sl # None /\ frame.new_sl # None)
        => ( frame.out.new_trailing_sl = None
             <=> FLt(FAbs(FSub(frame.new_sl, inputs.current_sl)), MoveThreshold) )

\* C5 happens: a candidate one tick from current_sl, under the threshold of
\* 0.14% of price, is suppressed by the min-move guard
C5_Witness ==
    /\ Returned /\ inputs.current_sl # None /\ frame.new_sl # None
    /\ frame.new_sl # inputs.current_sl
    /\ FLt(inputs.tick_size_abs, MoveThreshold)
    /\ frame.out.reason = "min-move guard" /\ frame.out.new_trailing_sl = None

\* x = n * tick as floats for some integer n (only zero is a multiple of zero)
IsTickMultiple(imX, imTick) ==
    IF imTick = F0 THEN imX = F0
    ELSE Let(FFloor(FDiv(imX, imTick)), LAMBDA imQ :
         \E imN \in {imQ - 1, imQ, imQ + 1} : FMul(FromInt(imN), imTick) = imX)

\* C6 as claimed: every returned trailing stop is an integer multiple of
\* tick_size_abs, for every input the engine accepts.
C6_TickAlignedAnyTick ==
    (Returned /\ frame.out.new_trailing_sl # None)
        => IsTickMultiple(frame.out.new_trailing_sl, inputs.tick_size_abs)

\* C6: when tick_size_abs is positive, every returned trailing stop equals
\* n * tick_size_abs (the float product) for an integer n.
C6_TickAlignedPositiveTick ==
    (Returned /\ frame.out.new_trailing_sl # None /\ FGt(inputs.tick_size_abs, F0))
        => IsTickMultiple(frame.out.new_trailing_sl, inputs.tick_size_abs)

\* C6 happens: a stacked trade under weak ADX, whose candidate 103 - 3.05 - 0.3
\* = 99.65 lies between two ticks of 0.1, gets the trailing stop 996 * 0.1,
\* which as a float is 99.60000000000001 and not the literal 99.6
C6_Witness ==
    /\ Returned /\ cfg = DefaultCfg /\ inputs.side = "BUY"
    /\ inputs.tick_size_abs = TickTenth /\ inputs.current_price = Tenths(1030)
    /\ inputs.is_stacked_trade /\ inputs.adx = None /\ inputs.last_swing_low = None
    /\ inputs.current_sl = None
    /\ frame.out.new_trailing_sl = FMul(FromInt(996), TickTenth)
    /\ frame.out.new_trailing_sl # Tenths(996)

\* the reference scenario: BUY, entry 100, initial stop 98, price 103, ADX 30,
\* ATR 1.0, swing low 101, tick 0.1, be_applied False, at least 2 bars, the
\* stop still where it was placed (current_sl absent or the initial stop)
ReferenceScenario ==
    /\ cfg = DefaultCfg /\ inputs.side = "BUY"
    /\ inputs.entry_price = Tenths(1000) /\ inputs.initial_stop = Tenths(980)
    /\ inputs.current_price = Tenths(1030) /\ inputs.adx = FromInt(30)
    /\ inputs.atr = F1 /\ inputs.last_swing_low = Tenths(1010)
    /\ inputs.tick_size_abs = TickTenth /\ ~inputs.be_applied
    /\ inputs.time_since_entry_bars >= 2
    /\ inputs.current_sl \in {None, inputs.initial_stop}

\* C7: the reference scenario under the default configuration yields
\* be_stop = 100.1 and new_trailing_sl = 100.7.
C7_ReferenceScenario ==
    (calls > 0 /\ ReferenceScenario)
        => ( /\ frame.out.exc = "none"
             /\ frame.out.be_stop = Tenths(1001)
             /\ frame.out.new_trailing_sl = Tenths(1007) )

\* C7 happens: the scenario was evaluated, with the strong multiplier
C7_Witness ==
    /\ calls > 0 /\ ReferenceScenario /\ inputs.current_sl = None
    /\ ~inputs.is_stacked_trade
    /\ frame.atr_mult = cfg.S10_TRAIL_ATR_MULT_STRONG
    /\ frame.out.new_trailing_sl = Tenths(1007)

\* entry_price * (1 + S10_BE_SL_OFFSET_PCT) for BUY, * (1 - ...) for SELL
BreakEvenPrice ==
    IF Upper(inputs.side) = "BUY"
    THEN FMul(inputs.entry_price, FAdd(F1, cfg.S10_BE_SL_OFFSET_PCT))
    ELSE FMul(inputs.entry_price, FSub(F1, cfg.S10_BE_SL_OFFSET_PCT))

\* C8: while time_since_entry_bars < S10_NO_TRAIL_BARS a returning call gives
\* no trailing stop and no partial close, gate passed or not, and still
\* proposes be_stop when the gate is passed and be_applied is False.
C8_NoTrailBarGuard ==
    (Returned /\ inputs.time_since_entry_bars < cfg.S10_NO_TRAIL_BARS)
        => ( /\ frame.out.new_trailing_sl = None
             /\ frame.out.partial_close_pct = None
             /\ (frame.passed_gate /\ ~inputs.be_applied)
                    => frame.out.be_stop = BreakEvenPrice )

\* C8 happens: one bar after entry, gate passed at R = 1.5 on a stacked trade,
\* break-even proposed and nothing else
C8_Witness ==
    /\ Returned /\ inputs.time_since_entry_bars = 1 /\ cfg = DefaultCfg
    /\ inputs.is_stacked_trade /\ frame.passed_gate /\ ~inputs.be_applied
    /\ inputs.current_price = Tenths(1030)
    /\ frame.out.be_stop = Tenths(1001) /\ frame.out.new_trailing_sl = None
    /\ frame.out.reason = "no-trail initial bars"

BaseMult ==
    IF cfg.S10_USE_ADAPTIVE_TRAIL THEN cfg.S10_TRAIL_ATR_MULT_WEAK
    ELSE cfg.S10_TRAIL_ATR_MULT_STRONG

LargeR == FromInt(10^9)
\* the price is beyond entry in the trade's favour
InProfit ==
    IF Upper(inputs.side) = "BUY" THEN FGt(inputs.current_price, inputs.entry_price)
    ELSE FLt(inputs.current_price, inputs.entry_price)

C11_NeverRaises == calls > 0 => frame.out.exc = "none"

\* C11 is refuted by a side string that does not upper-case to BUY or SELL
\* (the assert at the top of the function)
C11_RaisedOnSide ==
    /\ calls > 0 /\ Upper(inputs.side) \notin Sides
    /\ frame.out.exc = "AssertionError"

\* C11 is also refuted by an entry price of 0 under the percentage gate, with
\* a valid side (current_price / entry_price)
C11_RaisedOnZeroEntry ==
    /\ calls > 0 /\ inputs.side \in Sides /\ cfg.S10_BE_TRIGGER_PCT # None
    /\ inputs.entry_price = F0 /\ frame.out.exc = "ZeroDivisionError"

\* ADX is present and at or above S10_ADX_TREND_MIN
TrendConfirmed == inputs.adx # None /\ FGe(inputs.adx, cfg.S10_ADX_TREND_MIN)
\* the stacked bonus, or nothing, on top of multiplier m
WithBonus(wbM) ==
    IF inputs.is_stacked_trade /\ ~TrendConfirmed
    THEN FAdd(wbM, cfg.S10_STACKED_WIDER_MULT_BONUS) ELSE wbM

C18_OffPriceByATick ==
    (Returned /\ frame.out.new_trailing_sl # None)
        => IF Upper(inputs.side) = "BUY"
           THEN FLe(frame.out.new_trailing_sl,
                    FSub(inputs.current_price, inputs.tick_size_abs))
           ELSE FGe(frame.out.new_trailing_sl,
                    FAdd(inputs.current_price, inputs.tick_size_abs))

\* C18 is refuted on a BUY at price 0.70 with tick 0.01 and current_sl 0.80
\* beyond price: the clamp gives 0.70 - 0.01 = 0.69 and rounding down to the
\* tick returns 69 * 0.01 = 0.6900000000000001, above price - tick
C18_CrossedByRounding ==
    /\ Returned /\ inputs.side = "BUY" /\ inputs.tick_size_abs = TickCent
    /\ inputs.current_price = Cents(70) /\ inputs.current_sl = Cents(80)
    /\ frame.out.new_trailing_sl = FMul(FromInt(69), TickCent)
    /\ FGt(frame.out.new_trailing_sl, FSub(inputs.current_price, inputs.tick_size_abs))

\* |entry_price - initial_stop|
AbsRisk == FAbs(FSub(inputs.entry_price, inputs.initial_stop))
\* profit per unit: price - entry for BUY, entry - price for SELL
Profit ==
    IF Upper(inputs.side) = "BUY" THEN FSub(inputs.current_price, inputs.entry_price)
    ELSE FSub(inputs.entry_price, inputs.current_price)
\* initial_stop is on the protective side of entry (below for BUY, above for
\* SELL) or at it
StopProtects ==
    IF Upper(inputs.side) = "BUY" THEN FLe(inputs.initial_stop, inputs.entry_price)
    ELSE FGe(inputs.initial_stop, inputs.entry_price)

C20_TrailNotBehindBreakEven ==
    (Returned /\ frame.out.be_stop # None /\ frame.out.new_trailing_sl # None)
        => NoLooser(inputs.side, frame.out.new_trailing_sl, frame.out.be_stop)

\* C20 is refuted without odd inputs: default configuration, BUY from 100 with
\* stop 98 at price 103 (R = 1.5), no current stop, tick 0.1: be_stop 100.1
\* is returned with a trailing stop below entry
C20_TrailBehindBreakEven ==
    /\ Returned /\ cfg = DefaultCfg /\ inputs.side = "BUY"
    /\ inputs.current_price = Tenths(1030) /\ inputs.initial_stop = Tenths(980)
    /\ inputs.current_sl = None /\ inputs.tick_size_abs = TickTenth
    /\ frame.out.be_stop = Tenths(1001)
    /\ frame.out.new_trailing_sl # None
    /\ FLt(frame.out.new_trailing_sl, inputs.entry_price)

C13_NoLostMutation ==
    /\ reconcile.pc \in {"fetch", "archive", "import"}
          => managed_trades_lock = "reconcile"
    /\ reconcile.pc = "done" => concurrent \subseteq DOMAIN managed_trades

\* C13 is refuted after a successful position fetch: a trade entered by
\* another thread under the lock while reconcile_open_trades was running is
\* gone from managed_trades, though its row is in the managed_trades table
\* and its position is open
C13_LostInsert ==
    /\ reconcile.pc = "done" /\ reconcile.fetch = "ok"
    /\ \E liId \in concurrent :
          /\ liId.origin = "entry" /\ liId \notin DOMAIN managed_trades
          /\ liId \in db.managed /\ liId.symbol \in exchange

\* C14: when the position fetch raises inside reconcile_open_trades, every
\* trade that was in managed_trades before the call is still in it afterwards.
C14_FetchFailureKeepsTrades ==
    (reconcile.pc = "done" /\ reconcile.fetch = "raised")
        => DOMAIN reconcile.db_trades \subseteq DOMAIN managed_trades

\* C14 is refuted: the fetch raised, and a trade managed before the call, with
\* its position open and its row still in the table, is no longer managed
C14_DroppedOnFetchFailure ==
    /\ reconcile.pc = "done" /\ reconcile.fetch = "raised"
    /\ \E dfId \in DOMAIN reconcile.db_trades :
          /\ dfId \notin DOMAIN managed_trades
          /\ dfId \in db.managed /\ dfId.symbol \in exchange

\* C15: no indicator mutates its input: after atr, atr_wilder, adx, swing_low,
\* swing_high or supertrend the table passed in has the columns and values it
\* had before the call.
C15_InputUnchanged == ncalls > 0 => df = df_before

\* C15 is refuted by adx on a table of high, low and close: the old columns
\* keep their values and the table has three columns more
C15_AdxAddedColumns ==
    /\ ncalls > 0 /\ indicator = "adx"
    /\ DOMAIN df_before = {"high", "low", "close"}
    /\ DOMAIN df = {"high", "low", "close", "+DI", "-DI", "adx"}
    /\ \A acC \in DOMAIN df_before : df[acC] = df_before[acC]

\* every request has finished
AllDone == \A adR \in Requests : requests[adR].pc = "done"

\* C16: every evaluate_and_enter call of a debug_scan_once request runs with
\* CONFIG['DRY_RUN'] True, under every interleaving of requests, and when all
\* requests have finished CONFIG['DRY_RUN'] is what it was before the first.
C16_DebugScanIsDry ==
    /\ \A dsE \in evaluated : dsE.dry
    /\ AllDone => DRY_RUN = configured

\* C16 is refuted with DRY_RUN configured False: the second request started
\* while the first was evaluating and saved True as the original; the first
\* finished and restored False, the second evaluated a symbol with DRY_RUN
\* False, and when both had finished DRY_RUN was left True
C16_LiveDebugScan ==
    /\ AllDone /\ ~configured /\ DRY_RUN
    /\ \E ldE \in evaluated : ~ldE.dry

C22_ProtectiveDefaultStop ==
    imported # None =>
        /\ FGt(imported.stop_price, F0)
        /\ position.side = "BUY" => FLt(imported.stop_price, imported.current_price)
        /\ position.side = "SELL" => FGt(imported.stop_price, imported.current_price)
        /\ ~imported.invalid_sl
        /\ imported.sl # F0

\* a position at a close of 20,000,000 with flat bars (ATR 0): the distance
\* 1.5 * 1e-9 is lost in the subtraction, the stop is the price itself and the
\* record gets sl 0.0
C22_StopAtPrice ==
    /\ imported # None
    /\ position.bar.close = FromInt(MaxPrice) /\ position.bar.atr = F0
    /\ imported.stop_price = imported.current_price
    /\ imported.invalid_sl /\ imported.sl = F0

\* ---------------------------------------------------------------------------
\* C23: check_and_import_rogue_trades starts the import of a symbol at most
\* once, however many periodic checks run and whether the import returned a
\* record or None; a symbol whose import was started is in
\* notified_rogue_symbols.
\* ---------------------------------------------------------------------------
C23_ImportAttemptedOnce ==
    \A c23S \in Symbols :
        /\ rogue.attempts[c23S] <= 1
        /\ rogue.attempts[c23S] = 1 => c23S \in notified_rogue_symbols

\* a later check found a symbol rogue again, after an import that saved
\* nothing, and passed it over
C23_Witness ==
    \E c23S \in rogue.skipped :
        /\ rogue.attempts[c23S] = 1
        /\ \A c23K \in db.managed : c23K.symbol # c23S

\* ---------------------------------------------------------------------------
\* C29: once reconcile_open_trades and check_and_import_rogue_trades have
\* finished, every record that _import_rogue_position_async wrote to the
\* managed_trades table is in managed_trades, also when the import failed
\* after the record was saved.
\* ---------------------------------------------------------------------------
C29_SavedImportsManaged ==
    (reconcile.pc = "done" /\ rogue.pc = "start") =>
        \A c29K \in db.managed : c29K.origin = "imported" => c29K \in DOMAIN managed_trades

\* reconcile_open_trades has finished after a successful fetch, nothing else
\* has run, and a record saved by an import that then returned None is in the
\* table and not in managed_trades
C29_SavedNotManaged ==
    /\ reconcile.pc = "done" /\ reconcile.fetch = "ok"
    /\ rogue.pc = "start" /\ rogue.checks = 0 /\ entry.entries = 0 /\ entry.pc = "idle"
    /\ \E c29K \in db.managed :
          /\ c29K.origin = "imported" /\ c29K.symbol \in reconcile.failed
          /\ c29K \notin DOMAIN managed_trades

\* the lookback rows before the last row of a column
ClosedBars(cbS, cbN) == SubSeq(cbS, Len(cbS) - cbN, Len(cbS) - 1)

\* ---------------------------------------------------------------------------
\* C24: on a table of at least N + 1 bars, swing_low and get_last_pivot_low
\* return the minimum of the lows, swing_high and get_last_pivot_high the
\* maximum of the highs, of exactly the N bars before the last bar.
\* ---------------------------------------------------------------------------
C24_SwingOverClosedBars ==
    (ncalls > 0 /\ argument >= 1 /\ Len(df_before["low"]) >= argument + 1) =>
        /\ indicator \in {"swing_low", "get_last_pivot_low"}
              => returned = SeqMin(ClosedBars(df_before["low"], argument))
        /\ indicator \in {"swing_high", "get_last_pivot_high"}
              => returned = SeqMax(ClosedBars(df_before["high"], argument))

\* swing_low(series, N) on N + 1 bars whose last bar has the lowest low: the
\* value returned is the low of the last bar, below every low of the N bars
\* before it
C24_SwingLowOfLastBar ==
    /\ ncalls > 0 /\ indicator = "swing_low"
    /\ Len(df_before["low"]) >= argument + 1
    /\ returned = df_before["low"][Len(df_before["low"])]
    /\ returned < SeqMin(ClosedBars(df_before["low"], argument))

\* ---------------------------------------------------------------------------
\* C25: in adx, after the masking assignments, +DM and -DM of every bar that
\* has a bar before it are both non-negative and at most one of them is
\* non-zero, also when the raw upward and downward movements are equal.
\* ---------------------------------------------------------------------------
C25_DirectionalMovementExclusive ==
    (ncalls > 0 /\ indicator = "adx") =>
        \A c25I \in Rows(df["high"]) :
            /\ df["+DI"].dm[c25I] >= 0 /\ df["-DI"].dm[c25I] >= 0
            /\ df["+DI"].dm[c25I] = 0 \/ df["-DI"].dm[c25I] = 0

\* an outside bar: the high rose and the low fell by the same amount, and
\* both movements survived the masking
C25_BothMovementsKept ==
    /\ ncalls > 0 /\ indicator = "adx"
    /\ \E c25I \in Rows(df["high"]) :
          /\ df["high"][c25I] - df["high"][c25I - 1] = df["low"][c25I - 1] - df["low"][c25I]
          /\ df["+DI"].dm[c25I] > 0
          /\ df["-DI"].dm[c25I] = df["+DI"].dm[c25I]

\* ---------------------------------------------------------------------------
\* C26: two calls of compute_s10_trailing_update whose inputs differ only in
\* trailing_activated, taker_fee_pct or adx_period return equal decisions
\* (or raise the same exception).
\* ---------------------------------------------------------------------------
C26_IndependentOfUnusedInputs == calls = 2 => frame.out = prev_out

\* the second call had another taker fee and another ADX period, and its
\* trailing stop was held back by the minimum-move guard as in the first call
C26_Witness ==
    /\ calls = 2
    /\ inputs.taker_fee_pct = OtherFee /\ inputs.adx_period = OtherPeriod
    /\ cfg.S10_MIN_SL_MOVE_PCT = None
    /\ frame.out.exc = "none" /\ frame.out.reason = "min-move guard"
    /\ FGt(frame.min_move, inputs.tick_size_abs)

\* ---------------------------------------------------------------------------
\* C27: in every decision returned, activate_trailing is True exactly when the
\* break-even gate is passed, be_stop or new_trailing_sl is present only with
\* activate_trailing True, and partial_close_pct is present only together
\* with new_trailing_sl.
\* ---------------------------------------------------------------------------
C27_DecisionStructure ==
    Returned =>
        /\ frame.out.activate_trailing = frame.passed_gate
        /\ (frame.out.be_stop # None \/ frame.out.new_trailing_sl # None)
              => frame.out.activate_trailing
        /\ frame.out.partial_close_pct # None => frame.out.new_trailing_sl # None

\* a decision carrying a break-even stop, a trailing stop and a partial close
C27_Witness ==
    /\ Returned /\ frame.passed_gate /\ frame.out.activate_trailing
    /\ frame.out.be_stop # None /\ frame.out.new_trailing_sl # None
    /\ frame.out.partial_close_pct # None

\* ---------------------------------------------------------------------------
\* C28: a task cancelled while it waits in DualLock.__aenter__ does not leave
\* the lock held: the lock is never held on behalf of a cancelled task, which
\* has no __aexit__ left to release it.
\* ---------------------------------------------------------------------------
C28_NoLeak ==
    \A c28T \in Tasks : ~(_lock = c28T /\ tasks[c28T].pc = "cancelled")

\* the worker of a cancelled task has acquired the lock, and a thread waits
\* for it
C28_LockLeaked ==
    \E c28T \in Tasks, c28H \in Threads :
        /\ tasks[c28T].pc = "cancelled" /\ tasks[c28T].worker = "acquired"
        /\ _lock = c28T
        /\ threads[c28H].pc = "waiting"

\* ---------------------------------------------------------------------------
\* C30: under the default configuration, with either setting of the adaptive
\* flag, compute_s10_mult returns for an ADX (present or absent) and a stacked
\* flag the multiplier compute_s10_trailing_update selects for them.
\* ---------------------------------------------------------------------------
C30_SelectorsAgree ==
    (mult # None /\ Returned /\ frame.atr_mult # None) => mult = frame.atr_mult

\* both selectors have run on a stacked trade without an ADX value, adaptive
\* trailing on: the application kept the weak multiplier, the engine widened it
C30_WeakWithoutBonus ==
    /\ mult # None /\ Returned /\ frame.atr_mult # None
    /\ cfg = DefaultCfg /\ inputs.adx = None /\ inputs.is_stacked_trade
    /\ mult = cfg.S10_TRAIL_ATR_MULT_WEAK
    /\ frame.atr_mult = FAdd(cfg.S10_TRAIL_ATR_MULT_WEAK, cfg.S10_STACKED_WIDER_MULT_BONUS)

====
